---- MODULE Spec2Model ----
(***************************************************************************)
(* Model of the financial appraisal pipeline of real_estate_auto:          *)
(* the calculation stages of src/template.py and their caller              *)
(* BackgroundEmailProcessor.run_comprehensive_analysis                     *)
(* (src/background_processor.py), and of the batch runner that hands the   *)
(* fetched emails to it and saves the deals (BackgroundEmailProcessor.run, *)
(* process_email, should_process_email; src/supabase_client.py).           *)
(*                                                                         *)
(* Python values are modelled by records of one shape (a tag t and a       *)
(* payload), so that None, numbers, strings, booleans, an absent dict key  *)
(* and a raised exception can be stored in the same record field.          *)
(* Python floats are modelled by exact rationals.                          *)
(***************************************************************************)
EXTENDS Integers, Sequences, FiniteSets, TLC

VARIABLES
    email_data,     \* the classified email handed to the analysis
    pc,             \* the next stage to run, or how the run ended
    analysis_data,  \* stage name -> record, as filled so far
    result,         \* how the run ended: "running", "ok", "None" (batch) or
                    \* "raised" (a direct call raised)
    caller,         \* "batch": run_comprehensive_analysis; "direct": the stages
                    \* called with arguments of the types their signatures name;
                    \* "area": the area conversion alone
    args,           \* direct calls: the arguments that are not stage records;
                    \* batch: the last stage call and the records it was handed
    area_in,        \* area conversion: the square feet given
    area_out,       \* area conversion: the derived square metres, None before
    deals,          \* batch runner: the rows of the deals table, in insertion order
    mailbox,        \* batch runner: the unread emails, as a fetch returns them
    run             \* batch runner: runner -> where its run() is and what it counted

appraisal_vars == <<email_data, pc, analysis_data, result, caller, args, area_in, area_out>>
runner_vars == <<deals, mailbox, run>>
vars == <<email_data, pc, analysis_data, result, caller, args, area_in, area_out,
          deals, mailbox, run>>

(***************************************************************************)
(* Values                                                                  *)
(***************************************************************************)
\* A value: the tag t; for a number the whole part w and the fraction f/d
\* (0 <= f < d, lowest terms) of a numerator, over the divisor qw + qf/qd;
\* for a string the text s.
Val(t, w, f, d, s) ==
    [t |-> t, w |-> w, f |-> f, d |-> d, qw |-> 1, qf |-> 0, qd |-> 1, s |-> s]

NoneV == Val("none", 0, 0, 1, "")
\* a dict key that is not there (dict.get then yields its default)
AbsentV == Val("absent", 0, 0, 1, "")
\* an exception raised while the value was computed
ErrV == Val("err", 0, 0, 1, "")
Str(x) == Val("str", 0, 0, 1, x)
Bool(b) == Val("bool", IF b THEN 1 ELSE 0, 0, 1, "")

Abs(x) == IF x < 0 THEN -x ELSE x

RECURSIVE GCD(_, _)
GCD(a, b) == IF b = 0 THEN a ELSE GCD(b, a % b)

\* w + f/d with the fraction brought to lowest terms by its common divisor g
ReducedBy(w, f, d, g) == Val("num", w, f \div g, d \div g, "")
\* w + n/d (n >= 0 or not, d > 0): whole part and fraction in lowest terms
Mixed(w, n, d) == ReducedBy(w + (n \div d), n % d, d, GCD(n % d, d))

\* the number n/d (d > 0), exact
Num(n, d) == Mixed(0, n, d)

N(i) == Val("num", i, 0, 1, "")

IsNum(v) == v.t = "num"
IsNone(v) == v.t = "none"
IsErr(v) == v.t = "err"
\* a number whose divisor is 1
IsPlain(v) == v.t = "num" /\ v.qw = 1 /\ v.qf = 0 /\ v.qd = 1
\* the numerator and the divisor of a number, as plain numbers
NumOf(v) == Val("num", v.w, v.f, v.d, "")
DenOf(v) == Val("num", v.qw, v.qf, v.qd, "")
IsZero(v) == v.w = 0 /\ v.f = 0
Positive(v) == v.w > 0 \/ (v.w = 0 /\ v.f > 0)

\* Python truthiness: None, 0, "" and False are false
Truthy(v) ==
    CASE v.t = "num" -> ~IsZero(v)
      [] v.t = "bool" -> v.w # 0
      [] v.t = "str" -> v.s # ""
      [] OTHER -> FALSE

\* x * y stays within 32-bit integers
Fits(x, y) == x = 0 \/ y = 0 \/ Abs(x) <= 2147483647 \div Abs(y)

\* an operation the stages never apply to such operands: evaluation stops
Unsupported == CHOOSE v \in {} : TRUE

\* Op applied to operands that are evaluated once, whatever Op does with them
Apply1(Op(_), a) == CHOOSE r \in {Op(x) : x \in {a}} : TRUE
Apply2(Op(_, _), a, b) == CHOOSE r \in {Op(x, y) : x \in {a}, y \in {b}} : TRUE

\* the sum of two plain numbers, g the common divisor of their denominators
AddBy(a, b, g) ==
    Mixed(a.w + b.w, a.f * (b.d \div g) + b.f * (a.d \div g), (a.d \div g) * b.d)
AddP(a, b) == AddBy(a, b, GCD(a.d, b.d))

\* Arithmetic on anything but two numbers raises (TypeError); a raised
\* exception stays raised.
AddV(a, b) ==
    IF ~(IsNum(a) /\ IsNum(b)) THEN ErrV
    ELSE IF IsPlain(a) /\ IsPlain(b) THEN AddP(a, b)
    ELSE Unsupported

Add(a, b) == Apply2(AddV, a, b)

NegV(a) ==
    IF ~IsNum(a) THEN ErrV
    ELSE IF a.f = 0 THEN [a EXCEPT !.w = -a.w]
    ELSE [a EXCEPT !.w = -a.w - 1, !.f = a.d - a.f]

Neg(a) == Apply1(NegV, a)

SubV(a, b) == AddV(a, NegV(b))

Sub(a, b) == Apply2(SubV, a, b)

\* the plain number a times p/q (p/q in lowest terms, q > 0), g2 and g3 the
\* common divisors of p with a.d and of a.f with q, cancelled before
\* multiplying; other where the products cannot be formed
TimesBy(a, p, q, g2, g3, other) ==
    IF /\ Fits(a.w, p)
       /\ Fits(a.f \div g3, p \div g2)
       /\ a.d \div g2 <= 1073741823 \div q
    THEN AddP(Mixed(0, a.w * p, q),
              Mixed(0, (a.f \div g3) * (p \div g2), (a.d \div g2) * (q \div g3)))
    ELSE other
TimesLowest(a, p, q, other) == TimesBy(a, p, q, GCD(Abs(p), a.d), GCD(a.f, q), other)
\* the plain number a times p/q (q > 0)
Times(a, p, q, other) ==
    TimesLowest(a, p \div GCD(Abs(p), q), q \div GCD(Abs(p), q), other)

\* a plain number as one fraction n/d, where that can be formed
HasImproper(a) == Fits(a.w, a.d) /\ Abs(a.w * a.d) <= 2147483647 - a.f
ImpN(a) == a.w * a.d + a.f

\* a * b for plain numbers, b the multiplier
TimesNum(a, b, other) == IF HasImproper(b) THEN Times(a, ImpN(b), b.d, other) ELSE other

\* the product of two plain numbers: the one that is a small fraction
\* multiplies the other
MulP(a, b) == TimesNum(a, b, TimesNum(b, a, Unsupported))

MulV(a, b) ==
    IF ~(IsNum(a) /\ IsNum(b)) THEN ErrV
    ELSE IF IsPlain(a) /\ IsPlain(b) THEN MulP(a, b)
    ELSE Unsupported

Mul(a, b) == Apply2(MulV, a, b)

\* the numerator a over the divisor b, kept as a pair
Quot(a, b) == [a EXCEPT !.qw = b.w, !.qf = b.f, !.qd = b.d]

\* a / b for plain numbers, b # 0: the exact quotient as a plain number where
\* that can be formed, and otherwise the pair of numerator a and divisor b
DivP(a, b) ==
    IF HasImproper(b)
    THEN Times(a, IF Positive(b) THEN b.d ELSE -b.d, Abs(ImpN(b)), Quot(a, b))
    ELSE Quot(a, b)

\* a / b: ZeroDivisionError when b is 0
DivV(a, b) ==
    IF ~(IsNum(a) /\ IsNum(b)) THEN ErrV
    ELSE IF IsZero(b) THEN ErrV
    ELSE IF IsPlain(a) /\ IsPlain(b) THEN DivP(a, b)
    ELSE IF IsPlain(b) THEN Quot(a, MulP(DenOf(a), b))
    ELSE Unsupported

Div(a, b) == Apply2(DivV, a, b)

\* n1/d1 < n2/d2 (d1, d2 > 0), by whole parts and then the inverted remainders,
\* so that no product is formed
RECURSIVE LtFrac(_, _, _, _)
LtFrac(n1, d1, n2, d2) ==
    IF n1 \div d1 # n2 \div d2 THEN n1 \div d1 < n2 \div d2
    ELSE IF n2 % d2 = 0 THEN FALSE
    ELSE IF n1 % d1 = 0 THEN TRUE
    ELSE LtFrac(d2, n2 % d2, d1, n1 % d1)

LtP(a, b) == a.w < b.w \/ (a.w = b.w /\ LtFrac(a.f, a.d, b.f, b.d))

\* comparisons of two numbers; a quotient kept as a pair is compared by
\* multiplying through by the divisors
LtV(a, b) ==
    IF IsPlain(a) /\ IsPlain(b) THEN LtP(a, b)
    ELSE \E l \in {MulP(NumOf(a), DenOf(b))}, r \in {MulP(NumOf(b), DenOf(a))} :
            IF Positive(DenOf(a)) = Positive(DenOf(b)) THEN LtP(l, r) ELSE LtP(r, l)

Lt(a, b) == Apply2(LtV, a, b)
Le(a, b) == ~Lt(b, a)
Gt(a, b) == Lt(b, a)
Ge(a, b) == ~Lt(a, b)
\* min(a, b) and max(a, b) as Python picks them: the first of two equals
Min2V(a, b) == IF LtV(b, a) THEN b ELSE a
Max2V(a, b) == IF LtV(a, b) THEN b ELSE a
Min2(a, b) == Apply2(Min2V, a, b)
Max2(a, b) == Apply2(Max2V, a, b)

\* two numbers have the same value
EqNum(a, b) == IsNum(a) /\ IsNum(b) /\ ~Lt(a, b) /\ ~Lt(b, a)

Pow10(k) == IF k = 0 THEN 1 ELSE IF k = 1 THEN 10 ELSE 100

\* x, a plain number, to the nearest whole number, ties to the even neighbour
Nearest(x) ==
    IF x.f > x.d - x.f \/ (x.f = x.d - x.f /\ x.w % 2 = 1) THEN x.w + 1 ELSE x.w

\* round(v, k): to k decimals (k in 0..2)
RoundV(v, k) ==
    IF ~IsNum(v) THEN ErrV
    ELSE IF ~IsPlain(v) THEN Unsupported
    ELSE Num(Nearest(Times(v, Pow10(k), 1, Unsupported)), Pow10(k))

Round(v, k) == Apply2(RoundV, v, k)

\* d.get(key, default) for a key whose value is v (AbsentV: no such key)
Get(v, default) == IF v.t = "absent" THEN default ELSE v
\* x or default
Or(v, default) == IF Truthy(v) THEN v ELSE default

\* a stage raised: some value of its record could not be computed
Raised(rec) == \E k \in DOMAIN rec : IsErr(rec[k])
AllNone(rec) == \A k \in DOMAIN rec : IsNone(rec[k])

(***************************************************************************)
(* Stage 1: deal_appraisal                                                 *)
(***************************************************************************)
deal_appraisal_null ==
    [asking_price |-> NoneV,
     reduction_to_achieve_target_profit_percentage_gdv |-> NoneV,
     asking_price_percent |-> NoneV,
     reduction_to_achieve_target_profit_percentage_gdv_percent |-> NoneV,
     target_strike_price |-> NoneV,
     target_strike_price_percent |-> NoneV]

deal_appraisal(email) ==
    LET ask == email.property_details.asking_price
        red == email.property_details.reduction_to_achieve_target_profit_percentage_gdv
    IN  IF ~IsNone(ask) /\ ~IsNone(red)
        THEN [asking_price |-> ask,
              reduction_to_achieve_target_profit_percentage_gdv |-> red,
              asking_price_percent |-> N(100),
              reduction_to_achieve_target_profit_percentage_gdv_percent |-> Div(red, ask),
              target_strike_price |-> Sub(ask, red),
              target_strike_price_percent |-> Div(Sub(ask, red), ask)]
        ELSE deal_appraisal_null

(***************************************************************************)
(* Stage 2: gross_development_value                                        *)
(***************************************************************************)
\* a variant that rounds the derived area to whole square metres
DeriveAreaM2Whole(area_sqft, area_m2) ==
    IF Truthy(area_sqft) /\ ~Truthy(area_m2)
    THEN Round(Mul(area_sqft, Num(92903, 1000000)), 0)
    ELSE area_m2

\* area_m2 of a row: derived from area_sqft when only that is given
DeriveAreaM2(area_sqft, area_m2) ==
    IF Truthy(area_sqft) /\ ~Truthy(area_m2)
    THEN Round(Mul(area_sqft, Num(92903, 1000000)), 1)
    ELSE area_m2

\* area_sqft of a row: derived from area_m2 when only that is given
DeriveAreaSqft(area_sqft, area_m2) ==
    IF Truthy(area_sqft) /\ ~Truthy(area_m2)
    THEN area_sqft
    ELSE IF Truthy(area_m2) /\ ~Truthy(area_sqft)
    THEN Round(Mul(area_m2, Num(10764, 1000)), 1)
    ELSE area_sqft

\* floor.get("floor_type", "").title() + " Floor", on the floor types of the model
FloorLabel(floor_type) ==
    CASE floor_type = "ground" -> "Ground Floor"
      [] floor_type = "first" -> "First Floor"
      [] OTHER -> "Upper Floor"

\* accom_type_map.get(type.lower(), type.title()), on the types of the model
AccomLabel(type) ==
    CASE type = "studio" -> "Studio Flat"
      [] type = "1-bed" -> "1 Bed Flat"
      [] type = "2-bed" -> "2 Bed Flat"
      [] OTHER -> "Flat"

\* amount of a row: price per unit * units, None when either is missing or 0
RowAmount(price_per_unit, units) ==
    IF Truthy(price_per_unit) /\ Truthy(units) THEN Mul(price_per_unit, units) ELSE NoneV

GdvRow(floor, accom) ==
    LET area_sqft == DeriveAreaSqft(accom.area_sqft, accom.area_m2)
        area_m2 == DeriveAreaM2(accom.area_sqft, accom.area_m2)
        price_per_unit == accom.price_per_unit
        price_per_sqft ==
            IF Truthy(price_per_unit) /\ Truthy(area_sqft) /\ ~Truthy(accom.price_per_sqft)
            THEN Round(Div(price_per_unit, area_sqft), 2)
            ELSE accom.price_per_sqft
        units == Get(accom.units, N(0))
    IN  [market_type |-> IF Truthy(Get(accom.affordable_housing, Bool(FALSE)))
                         THEN Str("Residential - Affordable")
                         ELSE Str("Residential - Open Market"),
         build_type |-> Str("New Build"),
         floor |-> Str(FloorLabel(floor.floor_type)),
         accommodation_type |-> Str(AccomLabel(accom.type)),
         no_of_units |-> units,
         average_sqm_per_unit |-> area_m2,
         average_sqft_per_unit |-> area_sqft,
         price_per_unit |-> price_per_unit,
         price_per_sqft |-> price_per_sqft,
         amount |-> RowAmount(price_per_unit, units)]

\* the rows of all floors, in order
RECURSIVE GdvRows(_)
GdvRows(floors) ==
    IF floors = <<>> THEN <<>>
    ELSE LET floor == Head(floors)
             accoms == floor.accommodation_types
         IN  [i \in 1..Len(accoms) |-> GdvRow(floor, accoms[i])] \o GdvRows(Tail(floors))

\* sum(values), from 0
RECURSIVE SumVals(_)
SumVals(vals) == IF vals = <<>> THEN N(0) ELSE Add(Head(vals), SumVals(Tail(vals)))

\* sum(row["no_of_units"] for row in gdv_rows if row["no_of_units"])
TotalUnits(rows) ==
    LET Keep(row) == Truthy(row.no_of_units)
        kept == SelectSeq(rows, Keep)
    IN  SumVals([i \in 1..Len(kept) |-> kept[i].no_of_units])

\* a variant that adds up the unit prices of the rows, not their amounts
TotalAmountOfPrices(rows) ==
    LET Keep(row) == Truthy(row.amount)
        kept == SelectSeq(rows, Keep)
    IN  SumVals([i \in 1..Len(kept) |-> kept[i].price_per_unit])

\* sum(row["amount"] for row in gdv_rows if row["amount"])
TotalAmount(rows) ==
    LET Keep(row) == Truthy(row.amount)
        kept == SelectSeq(rows, Keep)
    IN  SumVals([i \in 1..Len(kept) |-> kept[i].amount])

WeightedSqmSum(rows) ==
    LET Keep(row) == Truthy(row.no_of_units) /\ Truthy(row.average_sqm_per_unit)
        kept == SelectSeq(rows, Keep)
    IN  SumVals([i \in 1..Len(kept) |->
                    Mul(kept[i].no_of_units, kept[i].average_sqm_per_unit)])

WeightedSqftSum(rows) ==
    LET Keep(row) == Truthy(row.no_of_units) /\ Truthy(row.average_sqft_per_unit)
        kept == SelectSeq(rows, Keep)
    IN  SumVals([i \in 1..Len(kept) |->
                    Mul(kept[i].no_of_units, kept[i].average_sqft_per_unit)])

TotalsRow(rows) ==
    LET total_units == TotalUnits(rows)
        total_amount == TotalAmount(rows)
        weighted_sqm_sum == WeightedSqmSum(rows)
        weighted_sqft_sum == WeightedSqftSum(rows)
    IN  [market_type |-> Str("Residential - Total"),
         build_type |-> Str("New Build"),
         floor |-> Str(""),
         accommodation_type |-> Str(""),
         no_of_units |-> total_units,
         average_sqm_per_unit |->
             IF Truthy(total_units) THEN Round(weighted_sqm_sum, 1) ELSE NoneV,
         average_sqft_per_unit |->
             IF Truthy(total_units) THEN Round(weighted_sqft_sum, 1) ELSE NoneV,
         price_per_unit |->
             IF Truthy(total_units) /\ Truthy(total_amount)
             THEN Round(total_amount, 0) ELSE NoneV,
         price_per_sqft |->
             IF Truthy(weighted_sqft_sum) /\ Truthy(total_amount)
             THEN Round(total_amount, 2) ELSE NoneV,
         amount |-> total_amount]

\* a variant that appends the totals row even when there is no row to total
gross_development_value_always_totals(email) ==
    LET gdv_rows == GdvRows(email.property_details.floors)
    IN  Append(gdv_rows, TotalsRow(gdv_rows))

gross_development_value(email) ==
    LET floors_data == email.property_details.floors
        gdv_rows == GdvRows(floors_data)
    IN  IF floors_data = <<>> THEN <<>>
        ELSE IF gdv_rows # <<>> THEN Append(gdv_rows, TotalsRow(gdv_rows))
        ELSE gdv_rows

\* gdv_dict[-1]
Last(gdv_dict) == gdv_dict[Len(gdv_dict)]
\* "gdv_dict and len(gdv_dict) > 0"
HasRows(gdv_dict) == Len(gdv_dict) > 0

(***************************************************************************)
(* Stage 3: acquisition_costs                                              *)
(***************************************************************************)
acquisition_costs_null ==
    [asking_price |-> NoneV,
     stamp_duty |-> NoneV,
     sourcing_fee_percent |-> NoneV,
     sourcing_fee |-> NoneV,
     building_insurance_percent |-> NoneV,
     building_insurance |-> NoneV,
     legal_professional_costs_percent |-> NoneV,
     legal_professional_costs |-> NoneV,
     total_acquisition_costs |-> NoneV]

acquisition_costs(email) ==
    LET asking_price == email.property_details.asking_price
        stamp_duty == N(158002)
        sourcing_fee == Mul(Num(2, 100), asking_price)
        building_insurance == Mul(Num(75, 10000), asking_price)
        legal_professional_costs == Mul(Num(5, 1000), asking_price)
    IN  IF Truthy(asking_price)
        THEN [asking_price |-> asking_price,
              stamp_duty |-> stamp_duty,
              sourcing_fee_percent |-> Num(2, 100),
              sourcing_fee |-> sourcing_fee,
              building_insurance_percent |-> Num(75, 10000),
              building_insurance |-> building_insurance,
              legal_professional_costs_percent |-> Num(5, 1000),
              legal_professional_costs |-> legal_professional_costs,
              total_acquisition_costs |->
                  Add(Add(Add(Add(asking_price, stamp_duty), sourcing_fee),
                          building_insurance), legal_professional_costs)]
        ELSE acquisition_costs_null

(***************************************************************************)
(* Stage 4: build_costs                                                    *)
(***************************************************************************)
build_costs_null ==
    [NIA |-> NoneV,
     net_to_gross |-> NoneV,
     GIA |-> NoneV,
     price_per_m2 |-> NoneV,
     total_build_costs |-> NoneV,
     cost_per_flat |-> NoneV,
     landscaping_costs |-> NoneV,
     build_contingency_percent |-> NoneV,
     build_contingency_amount |-> NoneV,
     build_costs_total |-> NoneV]

\* a variant that takes the unit count for the net internal area
BuildNIAUnitsOnly(totals) == totals.no_of_units

\* NIA: units * average m2 per unit of the totals row
BuildNIA(totals) == Mul(totals.no_of_units, totals.average_sqm_per_unit)

build_costs(gdv_dict, acquisition_dict) ==
    IF HasRows(gdv_dict) /\ Truthy(Last(gdv_dict).no_of_units)
       /\ Truthy(Last(gdv_dict).average_sqm_per_unit)
    THEN LET NIA == BuildNIA(Last(gdv_dict))
             net_to_gross == Num(2, 10)
             GIA == Mul(Add(N(1), net_to_gross), NIA)
             price_per_m2 == N(1200)
             total_build_costs == Mul(GIA, price_per_m2)
             landscaping_costs == N(0)
             build_contingency_percent == Num(1, 10)
             build_contingency_amount ==
                 Mul(Add(total_build_costs, landscaping_costs), build_contingency_percent)
         IN  [NIA |-> NIA,
              net_to_gross |-> net_to_gross,
              GIA |-> GIA,
              price_per_m2 |-> price_per_m2,
              total_build_costs |-> total_build_costs,
              cost_per_flat |-> Div(total_build_costs, Last(gdv_dict).no_of_units),
              landscaping_costs |-> landscaping_costs,
              build_contingency_percent |-> build_contingency_percent,
              build_contingency_amount |-> build_contingency_amount,
              build_costs_total |->
                  Add(Add(total_build_costs, landscaping_costs), build_contingency_amount)]
    ELSE build_costs_null

(***************************************************************************)
(* Stage 5: professional_fees                                              *)
(***************************************************************************)
professional_fees_null ==
    [architect_percent |-> NoneV,
     architect_fee |-> NoneV,
     town_planner_percent |-> NoneV,
     town_planner_fee |-> NoneV,
     structural_engineer_percent |-> NoneV,
     structural_engineer_fee |-> NoneV,
     building_control_per_unit |-> NoneV,
     building_control_fee |-> NoneV,
     project_management_per_month |-> NoneV,
     project_management_months |-> NoneV,
     project_management_fee |-> NoneV,
     structural_warranty_percent |-> NoneV,
     structural_warranty_fee |-> NoneV,
     quantity_surveyor_per_month |-> NoneV,
     quantity_surveyor_months |-> NoneV,
     quantity_surveyor_fee |-> NoneV,
     professional_fees_total |-> NoneV]

\* the structural warranty fee: 1% of build costs total + acquisition total when
\* the build costs total is there (and not 0), else None
StructuralWarrantyFee(acquisition_dict, build_cost_dict) ==
    IF Truthy(build_cost_dict.build_costs_total)
    THEN Mul(Add(build_cost_dict.build_costs_total,
                 acquisition_dict.total_acquisition_costs), Num(1, 100))
    ELSE NoneV

\* sum(fee for fee in fees_to_sum if fee is not None)
SumNotNone(fees) ==
    LET NotNone(fee) == ~IsNone(fee)
    IN  SumVals(SelectSeq(fees, NotNone))

professional_fees(gdv_dict, acquisition_dict, build_cost_dict, timeline_months) ==
    IF HasRows(gdv_dict) /\ Truthy(Last(gdv_dict).amount)
    THEN LET gdv_total == Last(gdv_dict).amount
             total_units == Last(gdv_dict).no_of_units
             architect_fee == Mul(gdv_total, Num(1, 100))
             town_planner_fee == Mul(gdv_total, Num(1, 1000))
             structural_engineer_fee == Mul(gdv_total, Num(5, 1000))
             building_control_fee == Mul(total_units, N(1500))
             project_management_fee == Mul(N(7000), timeline_months)
             structural_warranty_fee ==
                 StructuralWarrantyFee(acquisition_dict, build_cost_dict)
             quantity_surveyor_months == Add(timeline_months, N(1))
             quantity_surveyor_fee == Mul(N(1200), quantity_surveyor_months)
             fees_to_sum ==
                 <<architect_fee, town_planner_fee, structural_engineer_fee,
                   building_control_fee, project_management_fee, quantity_surveyor_fee>>
                 \o (IF ~IsNone(structural_warranty_fee)
                     THEN <<structural_warranty_fee>> ELSE <<>>)
         IN  [architect_percent |-> Num(1, 100),
              architect_fee |-> architect_fee,
              town_planner_percent |-> Num(1, 1000),
              town_planner_fee |-> town_planner_fee,
              structural_engineer_percent |-> Num(5, 1000),
              structural_engineer_fee |-> structural_engineer_fee,
              building_control_per_unit |-> N(1500),
              building_control_fee |-> building_control_fee,
              project_management_per_month |-> N(7000),
              project_management_months |-> timeline_months,
              project_management_fee |-> project_management_fee,
              structural_warranty_percent |-> Num(1, 100),
              structural_warranty_fee |-> structural_warranty_fee,
              quantity_surveyor_per_month |-> N(1200),
              quantity_surveyor_months |-> quantity_surveyor_months,
              quantity_surveyor_fee |-> quantity_surveyor_fee,
              professional_fees_total |-> SumNotNone(fees_to_sum)]
    ELSE professional_fees_null

(***************************************************************************)
(* Stage 6: statutory_costs                                                *)
(***************************************************************************)
statutory_costs_null ==
    [nutrient_neutrality_per_unit |-> NoneV,
     nutrient_neutrality |-> NoneV,
     section_106 |-> NoneV,
     cil |-> NoneV,
     affordable |-> NoneV,
     statutory_costs_total |-> NoneV,
     statutory_costs_percent |-> NoneV]

statutory_costs(gdv_dict) ==
    IF HasRows(gdv_dict) /\ Truthy(Last(gdv_dict).no_of_units)
    THEN LET total_units == Last(gdv_dict).no_of_units
             nutrient_neutrality == Mul(total_units, N(5000))
             section_106 == N(0)
             cil == N(150000)
             affordable == N(0)
             statutory_costs_total ==
                 Add(Add(Add(nutrient_neutrality, section_106), cil), affordable)
         IN  [nutrient_neutrality_per_unit |-> N(5000),
              nutrient_neutrality |-> nutrient_neutrality,
              section_106 |-> section_106,
              cil |-> cil,
              affordable |-> affordable,
              statutory_costs_total |-> statutory_costs_total,
              statutory_costs_percent |->
                  IF Truthy(Last(gdv_dict).amount)
                  THEN Div(statutory_costs_total, Last(gdv_dict).amount)
                  ELSE NoneV]
    ELSE statutory_costs_null

(***************************************************************************)
(* Stage 7: total_development_costs                                        *)
(***************************************************************************)
total_development_costs_null ==
    [build_costs_total |-> NoneV,
     professional_fees_total |-> NoneV,
     statutory_costs_total |-> NoneV,
     total_development_costs |-> NoneV,
     build_costs_percent |-> NoneV,
     professional_fees_percent |-> NoneV,
     statutory_costs_percent |-> NoneV]

total_development_costs(build_cost_dict, prof_fees_dict, statutory_dict) ==
    IF ~IsNone(build_cost_dict.build_costs_total)
       /\ ~IsNone(prof_fees_dict.professional_fees_total)
       /\ ~IsNone(statutory_dict.statutory_costs_total)
    THEN LET total == Add(Add(build_cost_dict.build_costs_total,
                              prof_fees_dict.professional_fees_total),
                          statutory_dict.statutory_costs_total)
         IN  [build_costs_total |-> build_cost_dict.build_costs_total,
              professional_fees_total |-> prof_fees_dict.professional_fees_total,
              statutory_costs_total |-> statutory_dict.statutory_costs_total,
              total_development_costs |-> total,
              build_costs_percent |-> Div(build_cost_dict.build_costs_total, total),
              professional_fees_percent |->
                  Div(prof_fees_dict.professional_fees_total, total),
              statutory_costs_percent |->
                  Div(statutory_dict.statutory_costs_total, total)]
    ELSE total_development_costs_null

(***************************************************************************)
(* Stage 8: profit_pre_funding_costs                                       *)
(***************************************************************************)
profit_pre_funding_costs_null ==
    [gdv |-> NoneV,
     total_acquisition_costs |-> NoneV,
     total_development_costs |-> NoneV,
     total_costs_pre_funding |-> NoneV,
     profit_pre_funding_costs |-> NoneV,
     profit_margin_on_gdv |-> NoneV,
     profit_margin_on_costs |-> NoneV]

profit_pre_funding_costs(gdv_dict, acquisition_dict, dev_costs_dict) ==
    IF HasRows(gdv_dict) /\ ~IsNone(Last(gdv_dict).amount)
       /\ ~IsNone(acquisition_dict.total_acquisition_costs)
       /\ ~IsNone(dev_costs_dict.total_development_costs)
    THEN LET gdv == Last(gdv_dict).amount
             total_costs_pre_funding ==
                 Add(acquisition_dict.total_acquisition_costs,
                     dev_costs_dict.total_development_costs)
             profit == Sub(gdv, total_costs_pre_funding)
         IN  [gdv |-> gdv,
              total_acquisition_costs |-> acquisition_dict.total_acquisition_costs,
              total_development_costs |-> dev_costs_dict.total_development_costs,
              total_costs_pre_funding |-> total_costs_pre_funding,
              profit_pre_funding_costs |-> profit,
              profit_margin_on_gdv |-> Div(profit, gdv),
              profit_margin_on_costs |-> Div(profit, total_costs_pre_funding)]
    ELSE profit_pre_funding_costs_null

(***************************************************************************)
(* Stage 9: finance_costs                                                  *)
(*                                                                         *)
(* A timeline_months argument is [kind, land_duration,                     *)
(* development_duration]: kind "none" is None, "dict" a dict whose two     *)
(* keys hold the given values (AbsentV: no such key), "int" a plain        *)
(* number, which has no .get: calling it raises AttributeError.            *)
(***************************************************************************)
finance_costs_null ==
    [land_ltv |-> NoneV,
     land_lending_amount |-> NoneV,
     land_interest_annual |-> NoneV,
     land_interest_monthly |-> NoneV,
     land_duration_months |-> NoneV,
     land_interest_total |-> NoneV,
     land_entry_fee_percent |-> NoneV,
     land_entry_fee |-> NoneV,
     land_exit_fee_percent |-> NoneV,
     land_exit_fee |-> NoneV,
     development_ltv |-> NoneV,
     development_lending_amount |-> NoneV,
     development_interest_annual |-> NoneV,
     development_interest_monthly |-> NoneV,
     development_duration_months |-> NoneV,
     development_interest_total |-> NoneV,
     development_entry_fee_percent |-> NoneV,
     development_entry_fee |-> NoneV,
     development_exit_fee_percent |-> NoneV,
     development_exit_fee |-> NoneV,
     finance_costs_total |-> NoneV]

TimelineNone == [kind |-> "none", land_duration |-> AbsentV, development_duration |-> AbsentV]
TimelineDict(land, dev) == [kind |-> "dict", land_duration |-> land, development_duration |-> dev]
TimelineInt == [kind |-> "int", land_duration |-> AbsentV, development_duration |-> AbsentV]

\* a variant whose default for the land loan is the 12 months of the development loan
LandDurationDefault12(timeline_months) ==
    CASE timeline_months.kind = "none" -> N(12)
      [] timeline_months.kind = "dict" -> Get(timeline_months.land_duration, N(12))
      [] OTHER -> ErrV

\* timeline_months.get('land_duration', 18), after the None default of finance_costs
LandDuration(timeline_months) ==
    CASE timeline_months.kind = "none" -> N(18)
      [] timeline_months.kind = "dict" -> Get(timeline_months.land_duration, N(18))
      [] OTHER -> ErrV

\* timeline_months.get('development_duration', 12), after the None default
DevelopmentDuration(timeline_months) ==
    CASE timeline_months.kind = "none" -> N(12)
      [] timeline_months.kind = "dict" -> Get(timeline_months.development_duration, N(12))
      [] OTHER -> ErrV

\* a variant whose record carries one key more, an arrangement fee
finance_costs_with_arrangement_fee(acquisition_dict, dev_costs_dict, timeline_months) ==
    [k \in DOMAIN finance_costs_null \cup {"land_arrangement_fee"} |-> NoneV]

finance_costs(acquisition_dict, dev_costs_dict, timeline_months) ==
    IF ~IsNone(acquisition_dict.total_acquisition_costs)
       /\ ~IsNone(dev_costs_dict.total_development_costs)
    THEN LET land_ltv == Num(50, 100)
             land_lending_amount ==
                 Mul(acquisition_dict.total_acquisition_costs, land_ltv)
             land_interest_annual == Num(10, 100)
             land_interest_monthly == Div(land_interest_annual, N(12))
             land_duration_months == LandDuration(timeline_months)
             land_interest_total ==
                 Mul(Mul(land_lending_amount, land_interest_monthly), land_duration_months)
             land_entry_fee == Mul(land_lending_amount, Num(2, 100))
             land_exit_fee == Mul(land_lending_amount, Num(1, 100))
             development_ltv == N(1)
             development_lending_amount ==
                 Mul(dev_costs_dict.total_development_costs, development_ltv)
             development_interest_annual == Num(10, 100)
             development_interest_monthly == Div(development_interest_annual, N(12))
             development_duration_months == DevelopmentDuration(timeline_months)
             development_interest_total ==
                 Mul(Mul(Mul(development_lending_amount, development_interest_monthly),
                         development_duration_months), Num(5, 10))
             development_entry_fee == Mul(development_lending_amount, Num(2, 100))
             development_exit_fee == Mul(development_lending_amount, Num(1, 100))
         IN  [land_ltv |-> land_ltv,
              land_lending_amount |-> land_lending_amount,
              land_interest_annual |-> land_interest_annual,
              land_interest_monthly |-> land_interest_monthly,
              land_duration_months |-> land_duration_months,
              land_interest_total |-> land_interest_total,
              land_entry_fee_percent |-> Num(2, 100),
              land_entry_fee |-> land_entry_fee,
              land_exit_fee_percent |-> Num(1, 100),
              land_exit_fee |-> land_exit_fee,
              development_ltv |-> development_ltv,
              development_lending_amount |-> development_lending_amount,
              development_interest_annual |-> development_interest_annual,
              development_interest_monthly |-> development_interest_monthly,
              development_duration_months |-> development_duration_months,
              development_interest_total |-> development_interest_total,
              development_entry_fee_percent |-> Num(2, 100),
              development_entry_fee |-> development_entry_fee,
              development_exit_fee_percent |-> Num(1, 100),
              development_exit_fee |-> development_exit_fee,
              finance_costs_total |->
                  Add(Add(Add(Add(Add(land_interest_total, land_entry_fee), land_exit_fee),
                              development_interest_total), development_entry_fee),
                      development_exit_fee)]
    ELSE finance_costs_null

(***************************************************************************)
(* Stage 10: lenders_other_costs (no guard)                                *)
(***************************************************************************)
lenders_other_costs(timeline_months) ==
    LET lenders_valuation == N(10000)
        lenders_legal_costs == N(15000)
        lenders_qs_initial == N(5000)
        lenders_qs_ongoing_per_month == N(1140)
        lenders_qs_ongoing_months == Add(DevelopmentDuration(timeline_months), N(1))
        lenders_qs_ongoing_total ==
            Mul(lenders_qs_ongoing_per_month, lenders_qs_ongoing_months)
    IN  [lenders_valuation |-> lenders_valuation,
         lenders_legal_costs |-> lenders_legal_costs,
         lenders_qs_initial |-> lenders_qs_initial,
         lenders_qs_ongoing_per_month |-> lenders_qs_ongoing_per_month,
         lenders_qs_ongoing_months |-> lenders_qs_ongoing_months,
         lenders_qs_ongoing_total |-> lenders_qs_ongoing_total,
         lenders_other_costs_total |->
             Add(Add(Add(lenders_valuation, lenders_legal_costs), lenders_qs_initial),
                 lenders_qs_ongoing_total)]

(***************************************************************************)
(* Stage 11: total_funding_costs                                           *)
(***************************************************************************)
total_funding_costs_null ==
    [finance_costs_total |-> NoneV,
     lenders_other_costs_total |-> NoneV,
     funding_costs_total |-> NoneV,
     finance_costs_percent |-> NoneV,
     lenders_costs_percent |-> NoneV]

total_funding_costs(finance_dict, lenders_dict) ==
    IF ~IsNone(finance_dict.finance_costs_total)
       /\ ~IsNone(lenders_dict.lenders_other_costs_total)
    THEN LET total == Add(finance_dict.finance_costs_total,
                          lenders_dict.lenders_other_costs_total)
         IN  [finance_costs_total |-> finance_dict.finance_costs_total,
              lenders_other_costs_total |-> lenders_dict.lenders_other_costs_total,
              funding_costs_total |-> total,
              finance_costs_percent |->
                  IF Gt(total, N(0)) THEN Div(finance_dict.finance_costs_total, total)
                  ELSE NoneV,
              lenders_costs_percent |->
                  IF Gt(total, N(0))
                  THEN Div(lenders_dict.lenders_other_costs_total, total)
                  ELSE NoneV]
    ELSE total_funding_costs_null

(***************************************************************************)
(* Stage 12: selling_costs                                                 *)
(***************************************************************************)
selling_costs_null ==
    [marketing_costs |-> NoneV,
     agent_fee_percent |-> NoneV,
     agent_fee |-> NoneV,
     legal_fees_per_unit |-> NoneV,
     legal_fees_from_units |-> NoneV,
     legal_fees_percent |-> NoneV,
     legal_fees_from_percent |-> NoneV,
     legal_fees_total |-> NoneV,
     selling_costs_total |-> NoneV,
     selling_costs_percent |-> NoneV]

selling_costs(gdv_dict) ==
    IF HasRows(gdv_dict) /\ ~IsNone(Last(gdv_dict).amount)
       /\ Gt(Last(gdv_dict).amount, N(0))
    THEN LET gdv_total == Last(gdv_dict).amount
             total_units == Last(gdv_dict).no_of_units
             marketing_costs == N(5000)
             agent_fee == Mul(gdv_total, Num(24, 1000))
             legal_fees_from_units ==
                 IF Truthy(total_units) THEN Mul(total_units, N(1517)) ELSE N(0)
             legal_fees_from_percent == Mul(gdv_total, Num(1, 100))
             legal_fees_total == Max2(legal_fees_from_units, legal_fees_from_percent)
             selling_costs_total == Add(Add(marketing_costs, agent_fee), legal_fees_total)
         IN  [marketing_costs |-> marketing_costs,
              agent_fee_percent |-> Num(24, 1000),
              agent_fee |-> agent_fee,
              legal_fees_per_unit |-> N(1517),
              legal_fees_from_units |-> legal_fees_from_units,
              legal_fees_percent |-> Num(1, 100),
              legal_fees_from_percent |-> legal_fees_from_percent,
              legal_fees_total |-> legal_fees_total,
              selling_costs_total |-> selling_costs_total,
              selling_costs_percent |-> Div(selling_costs_total, gdv_total)]
    ELSE selling_costs_null

(***************************************************************************)
(* Stage 13: total_costs                                                   *)
(***************************************************************************)
total_costs_null ==
    [acquisition_costs |-> NoneV,
     development_costs |-> NoneV,
     funding_costs |-> NoneV,
     selling_costs |-> NoneV,
     total_costs |-> NoneV,
     acquisition_costs_percent |-> NoneV,
     development_costs_percent |-> NoneV,
     funding_costs_percent |-> NoneV,
     selling_costs_percent |-> NoneV]

total_costs(acquisition_dict, dev_costs_dict, funding_costs_dict, selling_dict) ==
    IF ~IsNone(acquisition_dict.total_acquisition_costs)
       /\ ~IsNone(dev_costs_dict.total_development_costs)
       /\ ~IsNone(funding_costs_dict.funding_costs_total)
       /\ ~IsNone(selling_dict.selling_costs_total)
    THEN LET acq == acquisition_dict.total_acquisition_costs
             dev == dev_costs_dict.total_development_costs
             fund == funding_costs_dict.funding_costs_total
             sell == selling_dict.selling_costs_total
             total == Add(Add(Add(acq, dev), fund), sell)
         IN  [acquisition_costs |-> acq,
              development_costs |-> dev,
              funding_costs |-> fund,
              selling_costs |-> sell,
              total_costs |-> total,
              acquisition_costs_percent |-> Div(acq, total),
              development_costs_percent |-> Div(dev, total),
              funding_costs_percent |-> Div(fund, total),
              selling_costs_percent |-> Div(sell, total)]
    ELSE total_costs_null

(***************************************************************************)
(* Stage 14: net_profit_analysis                                           *)
(***************************************************************************)
net_profit_analysis_null ==
    [net_profit |-> NoneV,
     net_profit_on_gdv |-> NoneV,
     net_profit_on_costs |-> NoneV]

\* a variant whose success branch leaves out the margin on costs
net_profit_analysis_without_costs_margin(gdv_dict, total_costs_dict) ==
    IF HasRows(gdv_dict) /\ ~IsNone(Last(gdv_dict).amount)
       /\ ~IsNone(total_costs_dict.total_costs)
    THEN LET gdv_total == Last(gdv_dict).amount
             net_profit == Sub(gdv_total, total_costs_dict.total_costs)
         IN  [net_profit |-> net_profit,
              net_profit_on_gdv |-> Div(net_profit, gdv_total)]
    ELSE net_profit_analysis_null

net_profit_analysis(gdv_dict, total_costs_dict) ==
    IF HasRows(gdv_dict) /\ ~IsNone(Last(gdv_dict).amount)
       /\ ~IsNone(total_costs_dict.total_costs)
    THEN LET gdv_total == Last(gdv_dict).amount
             net_profit == Sub(gdv_total, total_costs_dict.total_costs)
         IN  [net_profit |-> net_profit,
              net_profit_on_gdv |-> Div(net_profit, gdv_total),
              net_profit_on_costs |-> Div(net_profit, total_costs_dict.total_costs)]
    ELSE net_profit_analysis_null

(***************************************************************************)
(* Stage 15: lending_analysis                                              *)
(***************************************************************************)
lending_analysis_null ==
    [ltc_criteria |-> NoneV,
     ltgdv_criteria |-> NoneV,
     max_loan_ltc |-> NoneV,
     max_loan_ltgdv |-> NoneV,
     maximum_loan_amount |-> NoneV,
     reduce_costs_by |-> NoneV,
     reduce_loan_by |-> NoneV,
     max_lenders_land_advance_day1 |-> NoneV,
     own_equity_needed_day1 |-> NoneV,
     shortfall_equity_needed_day1 |-> NoneV,
     return_on_own_funds |-> NoneV,
     return_on_own_funds_per_annum |-> NoneV]

\* a variant that takes the higher of the two criteria
MaximumLoanAmountHigher(max_loan_ltc, max_loan_ltgdv) == Max2(max_loan_ltc, max_loan_ltgdv)

\* the loan cap: the lower of the two criteria
MaximumLoanAmount(max_loan_ltc, max_loan_ltgdv) == Min2(max_loan_ltc, max_loan_ltgdv)

lending_analysis(total_costs_dict, gdv_dict, own_funds_invested) ==
    IF ~IsNone(total_costs_dict.total_costs)
       /\ HasRows(gdv_dict) /\ ~IsNone(Last(gdv_dict).amount)
    THEN LET total == total_costs_dict.total_costs
             gdv_total == Last(gdv_dict).amount
             ltc_criteria == Num(85, 100)
             ltgdv_criteria == Num(70, 100)
             max_loan_ltc == Mul(total, ltc_criteria)
             max_loan_ltgdv == Mul(gdv_total, ltgdv_criteria)
             maximum_loan_amount == MaximumLoanAmount(max_loan_ltc, max_loan_ltgdv)
             development_costs ==
                 Add(total_costs_dict.development_costs, total_costs_dict.funding_costs)
             max_lenders_land_advance_day1 == Sub(maximum_loan_amount, development_costs)
             own_equity_needed_day1 ==
                 Sub(total_costs_dict.acquisition_costs, max_lenders_land_advance_day1)
         IN  [ltc_criteria |-> ltc_criteria,
              ltgdv_criteria |-> ltgdv_criteria,
              max_loan_ltc |-> max_loan_ltc,
              max_loan_ltgdv |-> max_loan_ltgdv,
              maximum_loan_amount |-> maximum_loan_amount,
              reduce_costs_by |->
                  IF Lt(max_loan_ltc, total) THEN Sub(total, max_loan_ltc) ELSE N(0),
              reduce_loan_by |->
                  IF Lt(max_loan_ltgdv, maximum_loan_amount)
                  THEN Sub(maximum_loan_amount, max_loan_ltgdv) ELSE N(0),
              max_lenders_land_advance_day1 |-> max_lenders_land_advance_day1,
              own_equity_needed_day1 |-> own_equity_needed_day1,
              shortfall_equity_needed_day1 |->
                  IF Truthy(own_funds_invested)
                     /\ Gt(own_equity_needed_day1, own_funds_invested)
                  THEN Sub(own_equity_needed_day1, own_funds_invested) ELSE N(0),
              return_on_own_funds |->
                  IF Truthy(own_funds_invested)
                  THEN Div(Sub(gdv_total, total), own_funds_invested) ELSE NoneV,
              return_on_own_funds_per_annum |->
                  IF Truthy(own_funds_invested)
                  THEN Div(Div(Sub(gdv_total, total), own_funds_invested),
                           Div(N(18), N(12)))
                  ELSE NoneV]
    ELSE lending_analysis_null

(***************************************************************************)
(* Stage 16: post_development_analysis                                     *)
(***************************************************************************)
post_development_analysis_null ==
    [rental_income_per_annum |-> NoneV,
     service_charges_percent |-> NoneV,
     service_charges |-> NoneV,
     net_rental_income |-> NoneV,
     term_loan_ltv |-> NoneV,
     term_loan_amount |-> NoneV,
     term_loan_interest_rate |-> NoneV,
     interest_on_term_loan |-> NoneV,
     net_cashflow_per_annum |-> NoneV]

\* a variant whose guard forgets the GDV amount: the rent is worked out anyway
post_development_analysis_rent_only(gdv_dict, total_units, rental_per_unit_per_month) ==
    IF HasRows(gdv_dict)
    THEN [post_development_analysis_null EXCEPT
              !.rental_income_per_annum =
                  Mul(Mul(total_units, rental_per_unit_per_month), N(12))]
    ELSE post_development_analysis_null

post_development_analysis(gdv_dict, total_units, rental_per_unit_per_month) ==
    IF HasRows(gdv_dict) /\ ~IsNone(Last(gdv_dict).amount)
    THEN LET gdv_total == Last(gdv_dict).amount
             rental_income_per_annum ==
                 Mul(Mul(total_units, rental_per_unit_per_month), N(12))
             service_charges_percent == Num(10, 100)
             service_charges == Mul(Neg(rental_income_per_annum), service_charges_percent)
             net_rental_income == Add(rental_income_per_annum, service_charges)
             term_loan_ltv == Num(65, 100)
             term_loan_amount == Mul(gdv_total, term_loan_ltv)
             term_loan_interest_rate == Num(7, 100)
             interest_on_term_loan == Mul(Neg(term_loan_amount), term_loan_interest_rate)
         IN  [rental_income_per_annum |-> rental_income_per_annum,
              service_charges_percent |-> service_charges_percent,
              service_charges |-> service_charges,
              net_rental_income |-> net_rental_income,
              term_loan_ltv |-> term_loan_ltv,
              term_loan_amount |-> term_loan_amount,
              term_loan_interest_rate |-> term_loan_interest_rate,
              interest_on_term_loan |-> interest_on_term_loan,
              net_cashflow_per_annum |-> Add(net_rental_income, interest_on_term_loan)]
    ELSE post_development_analysis_null

(***************************************************************************)
(* Stage 17: funding_workings                                              *)
(***************************************************************************)
\* {} , the dict that is false
EmptyDict == [k \in {} |-> NoneV]
\* truth of a dict: it has a key
DictTruthy(dict) == DOMAIN dict # {}
\* dict.get(key, default)
GetKey(dict, key, default) == IF key \in DOMAIN dict THEN dict[key] ELSE default

Split(own, borrow, total) == [own |-> own, borrow |-> borrow, total |-> total]

funding_workings_null ==
    [asking_price |-> Split(NoneV, NoneV, NoneV),
     stamp_duty |-> Split(NoneV, NoneV, NoneV),
     sourcing_fee |-> Split(NoneV, NoneV, NoneV),
     building_insurance |-> Split(NoneV, NoneV, NoneV),
     legal_professional_costs |-> Split(NoneV, NoneV, NoneV),
     acquisition_costs_total |-> Split(NoneV, NoneV, NoneV),
     build_costs_total |-> Split(NoneV, NoneV, NoneV),
     professional_fees_total |-> Split(NoneV, NoneV, NoneV),
     statutory_costs_total |-> Split(NoneV, NoneV, NoneV),
     funding_costs_total |-> Split(NoneV, NoneV, NoneV),
     selling_costs_total |-> Split(NoneV, NoneV, NoneV),
     total_costs |-> Split(NoneV, NoneV, NoneV)]

\* a variant that leaves the land loan in the own-funded part
AcqOwnWithLoan(asking_price, land_loan, stamp_duty, sourcing_fee, building_insurance, legal_costs) ==
    Add(Add(Add(Add(asking_price, stamp_duty), sourcing_fee), building_insurance),
        legal_costs)

\* the own-funded part of the acquisition costs
AcqOwn(asking_price, land_loan, stamp_duty, sourcing_fee, building_insurance, legal_costs) ==
    Add(Add(Add(Add(Sub(asking_price, land_loan), stamp_duty), sourcing_fee),
            building_insurance), legal_costs)

\* a variant that leaves the statutory costs out of the borrowed total
TotalBorrowWithoutStatutory(acq_borrow, build_costs_total, prof_fees_total, statutory_total) ==
    Add(Add(acq_borrow, build_costs_total), prof_fees_total)

\* the borrowed part of the grand total
TotalBorrow(acq_borrow, build_costs_total, prof_fees_total, statutory_total) ==
    Add(Add(Add(acq_borrow, build_costs_total), prof_fees_total), statutory_total)

funding_workings(acquisition_dict, dev_costs_dict, statutory_dict, funding_costs_dict, selling_dict, finance_dict) ==
    IF DictTruthy(acquisition_dict) /\ DictTruthy(dev_costs_dict)
       /\ DictTruthy(statutory_dict) /\ DictTruthy(funding_costs_dict)
       /\ DictTruthy(selling_dict) /\ DictTruthy(finance_dict)
    THEN LET land_loan == Or(GetKey(finance_dict, "land_lending_amount", N(0)), N(0))
             development_loan ==
                 Or(GetKey(finance_dict, "development_lending_amount", N(0)), N(0))
             asking_price == Or(GetKey(acquisition_dict, "asking_price", N(0)), N(0))
             stamp_duty == Or(GetKey(acquisition_dict, "stamp_duty", N(0)), N(0))
             sourcing_fee == Or(GetKey(acquisition_dict, "sourcing_fee", N(0)), N(0))
             building_insurance ==
                 Or(GetKey(acquisition_dict, "building_insurance", N(0)), N(0))
             legal_costs ==
                 Or(GetKey(acquisition_dict, "legal_professional_costs", N(0)), N(0))
             acq_own == AcqOwn(asking_price, land_loan, stamp_duty, sourcing_fee,
                               building_insurance, legal_costs)
             acq_borrow == land_loan
             acq_total ==
                 Or(GetKey(acquisition_dict, "total_acquisition_costs", N(0)), N(0))
             build_costs_total ==
                 Or(GetKey(dev_costs_dict, "build_costs_total", N(0)), N(0))
             prof_fees_total ==
                 Or(GetKey(dev_costs_dict, "professional_fees_total", N(0)), N(0))
             statutory_total ==
                 Or(GetKey(statutory_dict, "statutory_costs_total", N(0)), N(0))
             funding_total ==
                 Or(GetKey(funding_costs_dict, "funding_costs_total", N(0)), N(0))
             selling_total ==
                 Or(GetKey(selling_dict, "selling_costs_total", N(0)), N(0))
             total_own == Add(Add(acq_own, funding_total), selling_total)
             total_borrow ==
                 TotalBorrow(acq_borrow, build_costs_total, prof_fees_total,
                             statutory_total)
         IN  [asking_price |-> Split(Sub(asking_price, land_loan), land_loan, asking_price),
              stamp_duty |-> Split(stamp_duty, N(0), stamp_duty),
              sourcing_fee |-> Split(sourcing_fee, N(0), sourcing_fee),
              building_insurance |-> Split(building_insurance, N(0), building_insurance),
              legal_professional_costs |-> Split(legal_costs, N(0), legal_costs),
              acquisition_costs_total |-> Split(acq_own, acq_borrow, acq_total),
              build_costs_total |-> Split(N(0), build_costs_total, build_costs_total),
              professional_fees_total |-> Split(N(0), prof_fees_total, prof_fees_total),
              statutory_costs_total |-> Split(N(0), statutory_total, statutory_total),
              funding_costs_total |-> Split(funding_total, N(0), funding_total),
              selling_costs_total |-> Split(selling_total, N(0), selling_total),
              total_costs |-> Split(total_own, total_borrow, Add(total_own, total_borrow))]
    ELSE funding_workings_null

(***************************************************************************)
(* Stage 18: calculate_kpis                                                *)
(***************************************************************************)
calculate_kpis_null ==
    [deal_type |-> NoneV,
     higher_risk_building |-> NoneV,
     own_funds_needed |-> NoneV,
     land_purchase_own_funds |-> NoneV,
     shortfall_due_to_lending_criteria |-> NoneV,
     net_profit |-> NoneV,
     timeline_months |-> NoneV,
     return_on_own_funds |-> NoneV,
     return_on_own_funds_per_annum |-> NoneV,
     lending_criteria_ltc |-> NoneV,
     lending_criteria_ltgdv |-> NoneV,
     own_funds_left_in_deal |-> NoneV,
     yearly_net_cashflow |-> NoneV,
     annual_yield_on_own_funds |-> NoneV,
     travel_distance_miles |-> NoneV,
     car_travel_time |-> NoneV,
     train_travel_time |-> NoneV]

\* a variant that reads the total of the category whatever the part asked for
SplitPartTotal(funding_workings_dict, category, part) ==
    IF category \in DOMAIN funding_workings_dict
    THEN Or(GetKey(funding_workings_dict[category], "total", N(0)), N(0))
    ELSE N(0)

\* funding_workings_dict.get(category, {}).get(part, 0) or 0
SplitPart(funding_workings_dict, category, part) ==
    IF category \in DOMAIN funding_workings_dict
    THEN Or(GetKey(funding_workings_dict[category], part, N(0)), N(0))
    ELSE N(0)

\* a variant that takes the LTC-derived loan for the maximum loan
KpiMaxLoanLtc(lending_dict) == Or(GetKey(lending_dict, "max_loan_ltc", N(0)), N(0))

\* the lending record's maximum loan as calculate_kpis reads it
KpiMaxLoan(lending_dict) == Or(GetKey(lending_dict, "maximum_loan_amount", N(0)), N(0))

calculate_kpis(email_dict, funding_workings_dict, net_profit_dict, lending_dict, post_dev_dict, timeline_months) ==
    IF DictTruthy(funding_workings_dict) /\ DictTruthy(net_profit_dict)
       /\ DictTruthy(lending_dict)
    THEN LET total_own_funds == SplitPart(funding_workings_dict, "total_costs", "own")
             net_profit == Or(GetKey(net_profit_dict, "net_profit", N(0)), N(0))
             months == Or(timeline_months, N(18))
             has_own == Truthy(total_own_funds) /\ Gt(total_own_funds, N(0))
             total == SplitPart(funding_workings_dict, "total_costs", "total")
             max_loan == KpiMaxLoan(lending_dict)
             ltc_criteria ==
                 Or(GetKey(lending_dict, "ltc_criteria", Num(85, 100)), Num(85, 100))
             gdv_total == Or(email_dict.property_details.gdv, N(0))
             ltgdv_criteria ==
                 Or(GetKey(lending_dict, "ltgdv_criteria", Num(70, 100)), Num(70, 100))
             term_loan_amount == Or(GetKey(post_dev_dict, "term_loan_amount", N(0)), N(0))
             own_funds_left_in_deal == Sub(Add(total_own_funds, max_loan), term_loan_amount)
             yearly_net_cashflow ==
                 Or(GetKey(post_dev_dict, "net_cashflow_per_annum", N(0)), N(0))
         IN  [deal_type |-> Get(email_dict.deal_type, Str("Unknown")),
              higher_risk_building |-> Bool(FALSE),
              own_funds_needed |-> total_own_funds,
              land_purchase_own_funds |->
                  SplitPart(funding_workings_dict, "acquisition_costs_total", "own"),
              shortfall_due_to_lending_criteria |->
                  Or(GetKey(lending_dict, "shortfall_equity_needed_day1", N(0)), N(0)),
              net_profit |-> net_profit,
              timeline_months |-> months,
              return_on_own_funds |->
                  IF has_own THEN Div(net_profit, total_own_funds) ELSE NoneV,
              return_on_own_funds_per_annum |->
                  IF has_own
                  THEN Div(Div(net_profit, total_own_funds), Div(months, N(12)))
                  ELSE NoneV,
              lending_criteria_ltc |->
                  IF Gt(total, N(0))
                  THEN (IF Le(Div(max_loan, total), ltc_criteria)
                        THEN Str("Yes") ELSE Str("No"))
                  ELSE Str("Unknown"),
              lending_criteria_ltgdv |->
                  IF Truthy(gdv_total) /\ Gt(gdv_total, N(0))
                  THEN (IF Le(Div(max_loan, gdv_total), ltgdv_criteria)
                        THEN Str("Yes") ELSE Str("No"))
                  ELSE Str("Unknown"),
              own_funds_left_in_deal |->
                  IF DictTruthy(post_dev_dict) THEN own_funds_left_in_deal ELSE NoneV,
              yearly_net_cashflow |->
                  IF DictTruthy(post_dev_dict) THEN yearly_net_cashflow ELSE NoneV,
              annual_yield_on_own_funds |->
                  IF DictTruthy(post_dev_dict) /\ Truthy(own_funds_left_in_deal)
                     /\ Gt(own_funds_left_in_deal, N(0))
                  THEN Div(yearly_net_cashflow, own_funds_left_in_deal)
                  ELSE NoneV,
              travel_distance_miles |-> Num(641, 10),
              car_travel_time |-> Str("1h 12m"),
              train_travel_time |-> Str("2h 51m")]
    ELSE calculate_kpis_null

(***************************************************************************)
(* Bounds and inputs                                                       *)
(***************************************************************************)
\* floors per property
MaxFloors == 2
\* largest area, in whole square feet, given to the area conversion
MaxSqft == 1200

Accom(type, units, area_m2, area_sqft, price_per_unit, affordable) ==
    [type |-> type, units |-> units, area_m2 |-> area_m2, area_sqft |-> area_sqft,
     price_per_unit |-> price_per_unit, price_per_sqft |-> NoneV,
     affordable_housing |-> affordable]

\* AccommodationType records (every field there, None when unknown)
AccomComplete == Accom("2-bed", N(2), N(40), NoneV, N(150000), NoneV)
AccomSqftOnly == Accom("1-bed", N(3), NoneV, N(500), N(120000), Bool(TRUE))
AccomNoPrice == Accom("studio", N(2), N(30), NoneV, NoneV, NoneV)
AccomNoUnits == Accom("studio", NoneV, NoneV, N(450), N(100000), NoneV)

AccomLists ==
    {<<>>, <<AccomComplete>>, <<AccomSqftOnly>>, <<AccomNoPrice>>, <<AccomNoUnits>>,
     <<AccomNoPrice, AccomComplete>>}

FloorType(i) == IF i = 1 THEN "ground" ELSE IF i = 2 THEN "first" ELSE "second"

\* Floor lists of up to MaxFloors floors
FloorLists ==
    UNION {[1..k -> AccomLists] : k \in 0..MaxFloors}

Floors(accomLists) ==
    [i \in 1..Len(accomLists) |->
        [floor_type |-> FloorType(i), accommodation_types |-> accomLists[i]]]

\* property_details["timeline"]: None, or a Timeline dict
EmailTimelineNone == [kind |-> "none", total_development_duration_months |-> NoneV]
EmailTimeline(months) == [kind |-> "dict", total_development_duration_months |-> months]
EmailTimelines == {EmailTimelineNone, EmailTimeline(NoneV), EmailTimeline(N(12))}

AskingPrices == {NoneV, N(0), N(1000000)}
Reductions == {NoneV, N(300000)}
GdvFields == {NoneV, N(900000)}

Emails ==
    {[deal_type |-> Str("New Build"),
      property_details |->
          [asking_price |-> a,
           reduction_to_achieve_target_profit_percentage_gdv |-> r,
           floors |-> Floors(f),
           gdv |-> g,
           timeline |-> tl]] :
        a \in AskingPrices, r \in Reductions, f \in FloorLists, g \in GdvFields,
        tl \in EmailTimelines}

(***************************************************************************)
(* run_comprehensive_analysis, one action per stage call                   *)
(***************************************************************************)
NoData == [k \in {} |-> NoneV]

\* a variant in which storing a record empties the GDV list held before
PutEmptyingGdv(ad, stage, rec) ==
    (stage :> rec) @@ [s \in DOMAIN ad |-> IF s = "gdv" THEN <<>> ELSE ad[s]]

Put(ad, stage, rec) == (stage :> rec) @@ ad

\* a funding workings record holds a value that could not be computed
RaisedSplits(rec) == \E k \in DOMAIN rec : Raised(rec[k])

\* the call of a stage raised: some value of what it returns could not be computed
StageRaised(stage, rec) ==
    CASE stage = "gdv" -> FALSE
      [] stage = "funding_workings" -> RaisedSplits(rec)
      [] OTHER -> Raised(rec)

\* the keyword arguments of each stage call of run_comprehensive_analysis that are
\* read from analysis_data: parameter name |-> key of analysis_data
BatchCall(stage) ==
    CASE stage = "build_costs" ->
            [gdv_dict |-> "gdv", acquisition_dict |-> "acquisition_costs"]
      [] stage = "professional_fees" ->
            [gdv_dict |-> "gdv", acquisition_dict |-> "acquisition_costs", build_cost_dict |-> "build_costs"]
      [] stage = "statutory_costs" ->
            [gdv_dict |-> "gdv"]
      [] stage = "total_development_costs" ->
            [build_cost_dict |-> "build_costs", prof_fees_dict |-> "professional_fees", statutory_dict |-> "statutory_costs"]
      [] stage = "profit_pre_funding" ->
            [gdv_dict |-> "gdv", acquisition_dict |-> "acquisition_costs", dev_costs_dict |-> "total_development_costs"]
      [] stage = "finance_costs" ->
            [acquisition_dict |-> "acquisition_costs", dev_costs_dict |-> "total_development_costs"]
      [] stage = "total_funding_costs" ->
            [finance_dict |-> "finance_costs", lenders_dict |-> "lenders_other_costs"]
      [] stage = "selling_costs" ->
            [gdv_dict |-> "gdv"]
      [] stage = "total_costs" ->
            [acquisition_dict |-> "acquisition_costs", funding_costs_dict |-> "total_funding_costs", dev_costs_dict |-> "total_development_costs", selling_dict |-> "selling_costs"]
      [] stage = "net_profit_analysis" ->
            [gdv_dict |-> "gdv", total_costs_dict |-> "total_costs"]
      [] stage = "lending_analysis" ->
            [total_costs_dict |-> "total_costs", gdv_dict |-> "gdv"]
      [] stage = "post_development" ->
            [gdv_dict |-> "gdv"]
      [] stage = "funding_workings" ->
            [acquisition_dict |-> "acquisition_costs", dev_costs_dict |-> "total_development_costs", statutory_dict |-> "statutory_costs", funding_costs_dict |-> "total_funding_costs", selling_dict |-> "selling_costs", finance_dict |-> "finance_costs"]
      [] stage = "kpis" ->
            [funding_workings_dict |-> "funding_workings", net_profit_dict |-> "net_profit_analysis", lending_dict |-> "lenders_other_costs", post_dev_dict |-> "post_development"]
      [] OTHER -> NoData

\* the record a stage call of the batch is handed for a parameter
Passed(stage, param) == analysis_data[BatchCall(stage)[param]]

\* the stage returned rec: it is stored under its name and the run goes on, or
\* it raised: the except clause of run_comprehensive_analysis returns None
Stored(stage, rec, next) ==
    \E r \in {rec} :
        LET raised == StageRaised(stage, r)
        IN  /\ analysis_data' = IF raised THEN analysis_data
                                ELSE Put(analysis_data, stage, r)
            /\ pc' = IF raised THEN "failed" ELSE next
            /\ result' = IF raised THEN "None" ELSE IF next = "done" THEN "ok" ELSE result
            /\ args' = [stage |-> stage, passed |-> BatchCall(stage)]
            /\ UNCHANGED <<email_data, caller, area_in, area_out>>
            /\ UNCHANGED runner_vars

\* timeline.get('total_development_duration_months') or 24
BatchTimelineMonths(email) ==
    LET timeline == email.property_details.timeline
    IN  IF timeline.kind = "none" THEN N(24)
        ELSE Or(timeline.total_development_duration_months, N(24))

\* "timeline or {}": the Timeline dict has no land_duration or development_duration key
BatchTimelineDict(email) == TimelineDict(AbsentV, AbsentV)

Init ==
    /\ email_data \in Emails
    /\ pc = "deal_appraisal"
    /\ analysis_data = NoData
    /\ result = "running"
    /\ caller = "batch"
    /\ args = NoData
    /\ area_in = 0
    /\ area_out = NoneV
    /\ deals = <<>> /\ mailbox = <<>> /\ run = NoData

Batch_deal_appraisal ==
    /\ caller = "batch" /\ pc = "deal_appraisal"
    /\ LET rec == deal_appraisal(email_data)
       IN  Stored("deal_appraisal", rec, "gdv")

Batch_gross_development_value ==
    /\ caller = "batch" /\ pc = "gdv"
    /\ Stored("gdv", gross_development_value(email_data), "acquisition_costs")

Batch_acquisition_costs ==
    /\ caller = "batch" /\ pc = "acquisition_costs"
    /\ LET rec == acquisition_costs(email_data)
       IN  Stored("acquisition_costs", rec, "build_costs")

Batch_build_costs ==
    /\ caller = "batch" /\ pc = "build_costs"
    /\ LET rec == build_costs(Passed("build_costs", "gdv_dict"), Passed("build_costs", "acquisition_dict"))
       IN  Stored("build_costs", rec, "professional_fees")

Batch_professional_fees ==
    /\ caller = "batch" /\ pc = "professional_fees"
    /\ LET rec == professional_fees(Passed("professional_fees", "gdv_dict"),
                                    Passed("professional_fees", "acquisition_dict"),
                                    Passed("professional_fees", "build_cost_dict"),
                                    BatchTimelineMonths(email_data))
       IN  Stored("professional_fees", rec, "statutory_costs")

Batch_statutory_costs ==
    /\ caller = "batch" /\ pc = "statutory_costs"
    /\ LET rec == statutory_costs(Passed("statutory_costs", "gdv_dict"))
       IN  Stored("statutory_costs", rec, "total_development_costs")

Batch_total_development_costs ==
    /\ caller = "batch" /\ pc = "total_development_costs"
    /\ LET rec == total_development_costs(Passed("total_development_costs", "build_cost_dict"),
                                          Passed("total_development_costs", "prof_fees_dict"),
                                          Passed("total_development_costs", "statutory_dict"))
       IN  Stored("total_development_costs", rec, "profit_pre_funding")

Batch_profit_pre_funding_costs ==
    /\ caller = "batch" /\ pc = "profit_pre_funding"
    /\ LET rec == profit_pre_funding_costs(Passed("profit_pre_funding", "gdv_dict"),
                                           Passed("profit_pre_funding", "acquisition_dict"),
                                           Passed("profit_pre_funding", "dev_costs_dict"))
       IN  Stored("profit_pre_funding", rec, "finance_costs")

\* timeline_months=timeline_months: the number of months, not a dict
Batch_finance_costs ==
    /\ caller = "batch" /\ pc = "finance_costs"
    /\ LET rec == finance_costs(Passed("finance_costs", "acquisition_dict"),
                                Passed("finance_costs", "dev_costs_dict"),
                                TimelineInt)
       IN  Stored("finance_costs", rec, "lenders_other_costs")

Batch_lenders_other_costs ==
    /\ caller = "batch" /\ pc = "lenders_other_costs"
    /\ LET rec == lenders_other_costs(BatchTimelineDict(email_data))
       IN  Stored("lenders_other_costs", rec, "total_funding_costs")

Batch_total_funding_costs ==
    /\ caller = "batch" /\ pc = "total_funding_costs"
    /\ LET rec == total_funding_costs(Passed("total_funding_costs", "finance_dict"),
                                      Passed("total_funding_costs", "lenders_dict"))
       IN  Stored("total_funding_costs", rec, "selling_costs")

Batch_selling_costs ==
    /\ caller = "batch" /\ pc = "selling_costs"
    /\ LET rec == selling_costs(Passed("selling_costs", "gdv_dict"))
       IN  Stored("selling_costs", rec, "total_costs")

Batch_total_costs ==
    /\ caller = "batch" /\ pc = "total_costs"
    /\ LET rec == total_costs(Passed("total_costs", "acquisition_dict"),
                              Passed("total_costs", "dev_costs_dict"),
                              Passed("total_costs", "funding_costs_dict"),
                              Passed("total_costs", "selling_dict"))
       IN  Stored("total_costs", rec, "net_profit_analysis")

Batch_net_profit_analysis ==
    /\ caller = "batch" /\ pc = "net_profit_analysis"
    /\ LET rec == net_profit_analysis(Passed("net_profit_analysis", "gdv_dict"), Passed("net_profit_analysis", "total_costs_dict"))
       IN  Stored("net_profit_analysis", rec, "lending_analysis")

Batch_lending_analysis ==
    /\ caller = "batch" /\ pc = "lending_analysis"
    /\ LET rec == lending_analysis(Passed("lending_analysis", "total_costs_dict"), Passed("lending_analysis", "gdv_dict"),
                                   N(1500))
       IN  Stored("lending_analysis", rec, "post_development")

\* total_units = gdv[-1]['no_of_units'] if gdv else 1
Batch_post_development_analysis ==
    /\ caller = "batch" /\ pc = "post_development"
    /\ LET gdv == Passed("post_development", "gdv_dict")
           total_units == IF HasRows(gdv) THEN Last(gdv).no_of_units ELSE N(1)
           rec == post_development_analysis(gdv, total_units, N(3000))
       IN  Stored("post_development", rec, "funding_workings")

Batch_funding_workings ==
    /\ caller = "batch" /\ pc = "funding_workings"
    /\ LET rec == funding_workings(Passed("funding_workings", "acquisition_dict"),
                                   Passed("funding_workings", "dev_costs_dict"),
                                   Passed("funding_workings", "statutory_dict"),
                                   Passed("funding_workings", "funding_costs_dict"),
                                   Passed("funding_workings", "selling_dict"),
                                   Passed("funding_workings", "finance_dict"))
       IN  Stored("funding_workings", rec, "kpis")

\* lending_dict=analysis_data['lenders_other_costs']
Batch_calculate_kpis ==
    /\ caller = "batch" /\ pc = "kpis"
    /\ LET rec == calculate_kpis(email_data,
                                 Passed("kpis", "funding_workings_dict"),
                                 Passed("kpis", "net_profit_dict"),
                                 Passed("kpis", "lending_dict"),
                                 Passed("kpis", "post_dev_dict"),
                                 BatchTimelineMonths(email_data))
       IN  Stored("kpis", rec, "done")

Next ==
    \/ Batch_deal_appraisal
    \/ Batch_gross_development_value
    \/ Batch_acquisition_costs
    \/ Batch_build_costs
    \/ Batch_professional_fees
    \/ Batch_statutory_costs
    \/ Batch_total_development_costs
    \/ Batch_profit_pre_funding_costs
    \/ Batch_finance_costs
    \/ Batch_lenders_other_costs
    \/ Batch_total_funding_costs
    \/ Batch_selling_costs
    \/ Batch_total_costs
    \/ Batch_net_profit_analysis
    \/ Batch_lending_analysis
    \/ Batch_post_development_analysis
    \/ Batch_funding_workings
    \/ Batch_calculate_kpis

Spec == Init /\ [][Next]_vars

(***************************************************************************)
(* The stages called directly, in dependency order, each with arguments of *)
(* the types its signature names: a GDV list (built from the floors, or    *)
(* handed in), the number of months, a timeline dict or None, the own      *)
(* funds invested, the number of months or None for the KPIs, and {}       *)
(* where the caller has no finance or lending record.                      *)
(***************************************************************************)
TotalsOnly(units, sqm, amount) ==
    <<[market_type |-> Str("Residential - Total"),
       build_type |-> Str("New Build"),
       floor |-> Str(""),
       accommodation_type |-> Str(""),
       no_of_units |-> units,
       average_sqm_per_unit |-> sqm,
       average_sqft_per_unit |-> NoneV,
       price_per_unit |-> NoneV,
       price_per_sqft |-> NoneV,
       amount |-> amount]>>

\* GDV lists handed to the stages: a totals row with each field there or not
GivenGdvs ==
    {TotalsOnly(u, m, a) :
        u \in {NoneV, N(0), N(84)}, m \in {NoneV, N(40)},
        a \in {NoneV, N(0), N(12600000)}}

DirectAccomLists ==
    {<<AccomComplete>>, <<AccomSqftOnly>>, <<AccomNoPrice>>, <<AccomNoUnits>>,
     <<AccomNoPrice, AccomComplete>>}

DirectFloorLists == {<<>>} \cup {<<al>> : al \in DirectAccomLists}

DirectAskReds ==
    {<<NoneV, NoneV>>, <<N(0), NoneV>>, <<N(100000), NoneV>>, <<N(1000000), NoneV>>,
     <<N(1000000), N(300000)>>}

DirectEmails ==
    {[deal_type |-> Str("New Build"),
      property_details |->
          [asking_price |-> ar[1],
           reduction_to_achieve_target_profit_percentage_gdv |-> ar[2],
           floors |-> Floors(f),
           gdv |-> g,
           timeline |-> EmailTimelineNone]] :
        ar \in DirectAskReds, f \in DirectFloorLists, g \in GdvFields}

DirectArgs ==
    {[use_given |-> FALSE, gdv |-> <<>>, timeline_months |-> tm, timeline |-> tl,
      own_funds_invested |-> own, kpi_timeline_months |-> km, omit |-> om] :
        tm \in {N(18), N(24)},
        tl \in {TimelineNone, TimelineDict(N(24), N(18)), TimelineDict(AbsentV, N(6))},
        own \in {NoneV, N(1500)}, km \in {NoneV, N(24)}, om \in BOOLEAN}
    \cup
    {[use_given |-> TRUE, gdv |-> g, timeline_months |-> tm, timeline |-> tl,
      own_funds_invested |-> own, kpi_timeline_months |-> km, omit |-> om] :
        g \in GivenGdvs,
        tm \in {N(18), N(24)},
        tl \in {TimelineNone, TimelineDict(N(24), N(18)), TimelineDict(AbsentV, N(6))},
        own \in {NoneV, N(1500)}, km \in {NoneV, N(24)}, om \in BOOLEAN}

InitDirect ==
    /\ args \in DirectArgs
    /\ email_data \in
         IF args.use_given
         THEN {e \in DirectEmails : e.property_details.floors = <<>>}
         ELSE DirectEmails
    /\ pc = "deal_appraisal"
    /\ analysis_data = NoData
    /\ result = "running"
    /\ caller = "direct"
    /\ area_in = 0
    /\ area_out = NoneV
    /\ deals = <<>> /\ mailbox = <<>> /\ run = NoData

\* the stage returned rec, or raised: the exception reaches the caller
Returned(stage, rec, next) ==
    \E r \in {rec} :
        LET raised == StageRaised(stage, r)
        IN  /\ analysis_data' = IF raised THEN analysis_data
                                ELSE Put(analysis_data, stage, r)
            /\ pc' = IF raised THEN "raised" ELSE next
            /\ result' = IF raised THEN "raised"
                         ELSE IF next = "done" THEN "ok" ELSE result
            /\ UNCHANGED <<email_data, caller, args, area_in, area_out>>
            /\ UNCHANGED runner_vars

Call_deal_appraisal ==
    /\ caller = "direct" /\ pc = "deal_appraisal"
    /\ LET rec == deal_appraisal(email_data)
       IN  Returned("deal_appraisal", rec, "gdv")

Call_gross_development_value ==
    /\ caller = "direct" /\ pc = "gdv" /\ ~args.use_given
    /\ Returned("gdv", gross_development_value(email_data), "acquisition_costs")

\* a GDV list the caller holds already
Given_gdv ==
    /\ caller = "direct" /\ pc = "gdv" /\ args.use_given
    /\ Returned("gdv", args.gdv, "acquisition_costs")

Call_acquisition_costs ==
    /\ caller = "direct" /\ pc = "acquisition_costs"
    /\ LET rec == acquisition_costs(email_data)
       IN  Returned("acquisition_costs", rec, "build_costs")

Call_build_costs ==
    /\ caller = "direct" /\ pc = "build_costs"
    /\ LET rec == build_costs(analysis_data["gdv"], analysis_data["acquisition_costs"])
       IN  Returned("build_costs", rec, "professional_fees")

Call_professional_fees ==
    /\ caller = "direct" /\ pc = "professional_fees"
    /\ LET rec == professional_fees(analysis_data["gdv"],
                                    analysis_data["acquisition_costs"],
                                    analysis_data["build_costs"],
                                    args.timeline_months)
       IN  Returned("professional_fees", rec, "statutory_costs")

Call_statutory_costs ==
    /\ caller = "direct" /\ pc = "statutory_costs"
    /\ LET rec == statutory_costs(analysis_data["gdv"])
       IN  Returned("statutory_costs", rec, "total_development_costs")

Call_total_development_costs ==
    /\ caller = "direct" /\ pc = "total_development_costs"
    /\ LET rec == total_development_costs(analysis_data["build_costs"],
                                          analysis_data["professional_fees"],
                                          analysis_data["statutory_costs"])
       IN  Returned("total_development_costs", rec, "profit_pre_funding")

Call_profit_pre_funding_costs ==
    /\ caller = "direct" /\ pc = "profit_pre_funding"
    /\ LET rec == profit_pre_funding_costs(analysis_data["gdv"],
                                           analysis_data["acquisition_costs"],
                                           analysis_data["total_development_costs"])
       IN  Returned("profit_pre_funding", rec, "finance_costs")

Call_finance_costs ==
    /\ caller = "direct" /\ pc = "finance_costs"
    /\ LET rec == finance_costs(analysis_data["acquisition_costs"],
                                analysis_data["total_development_costs"],
                                args.timeline)
       IN  Returned("finance_costs", rec, "lenders_other_costs")

Call_lenders_other_costs ==
    /\ caller = "direct" /\ pc = "lenders_other_costs"
    /\ LET rec == lenders_other_costs(args.timeline)
       IN  Returned("lenders_other_costs", rec, "total_funding_costs")

Call_total_funding_costs ==
    /\ caller = "direct" /\ pc = "total_funding_costs"
    /\ LET rec == total_funding_costs(analysis_data["finance_costs"],
                                      analysis_data["lenders_other_costs"])
       IN  Returned("total_funding_costs", rec, "selling_costs")

Call_selling_costs ==
    /\ caller = "direct" /\ pc = "selling_costs"
    /\ LET rec == selling_costs(analysis_data["gdv"])
       IN  Returned("selling_costs", rec, "total_costs")

Call_total_costs ==
    /\ caller = "direct" /\ pc = "total_costs"
    /\ LET rec == total_costs(analysis_data["acquisition_costs"],
                              analysis_data["total_development_costs"],
                              analysis_data["total_funding_costs"],
                              analysis_data["selling_costs"])
       IN  Returned("total_costs", rec, "net_profit_analysis")

Call_net_profit_analysis ==
    /\ caller = "direct" /\ pc = "net_profit_analysis"
    /\ LET rec == net_profit_analysis(analysis_data["gdv"], analysis_data["total_costs"])
       IN  Returned("net_profit_analysis", rec, "lending_analysis")

Call_lending_analysis ==
    /\ caller = "direct" /\ pc = "lending_analysis"
    /\ LET rec == lending_analysis(analysis_data["total_costs"], analysis_data["gdv"],
                                   args.own_funds_invested)
       IN  Returned("lending_analysis", rec, "post_development")

\* total_units and rental_per_unit_per_month left to their defaults, 84 and 1200
Call_post_development_analysis ==
    /\ caller = "direct" /\ pc = "post_development"
    /\ LET rec == post_development_analysis(analysis_data["gdv"], N(84), N(1200))
       IN  Returned("post_development", rec, "funding_workings")

Call_funding_workings ==
    /\ caller = "direct" /\ pc = "funding_workings"
    /\ LET finance_dict == IF args.omit THEN EmptyDict ELSE analysis_data["finance_costs"]
           rec == funding_workings(analysis_data["acquisition_costs"],
                                   analysis_data["total_development_costs"],
                                   analysis_data["statutory_costs"],
                                   analysis_data["total_funding_costs"],
                                   analysis_data["selling_costs"],
                                   finance_dict)
       IN  Returned("funding_workings", rec, "kpis")

Call_calculate_kpis ==
    /\ caller = "direct" /\ pc = "kpis"
    /\ LET lending_dict == IF args.omit THEN EmptyDict ELSE analysis_data["lending_analysis"]
           rec == calculate_kpis(email_data,
                                 analysis_data["funding_workings"],
                                 analysis_data["net_profit_analysis"],
                                 lending_dict,
                                 analysis_data["post_development"],
                                 args.kpi_timeline_months)
       IN  Returned("kpis", rec, "done")

NextDirect ==
    \/ Call_deal_appraisal
    \/ Call_gross_development_value
    \/ Given_gdv
    \/ Call_acquisition_costs
    \/ Call_build_costs
    \/ Call_professional_fees
    \/ Call_statutory_costs
    \/ Call_total_development_costs
    \/ Call_profit_pre_funding_costs
    \/ Call_finance_costs
    \/ Call_lenders_other_costs
    \/ Call_total_funding_costs
    \/ Call_selling_costs
    \/ Call_total_costs
    \/ Call_net_profit_analysis
    \/ Call_lending_analysis
    \/ Call_post_development_analysis
    \/ Call_funding_workings
    \/ Call_calculate_kpis

SpecDirect == InitDirect /\ [][NextDirect]_vars

(***************************************************************************)
(* The area conversion of one accommodation entry given only area_sqft     *)
(***************************************************************************)
InitArea ==
    /\ area_in \in 1..MaxSqft
    /\ area_out = NoneV
    /\ pc = "area"
    /\ caller = "area"
    /\ email_data = NoData
    /\ analysis_data = NoData
    /\ args = NoData
    /\ result = "running"
    /\ deals = <<>> /\ mailbox = <<>> /\ run = NoData

\* area_m2 = round(area_sqft * 0.092903, 1), the entry having no area_m2
ConvertArea ==
    /\ caller = "area" /\ pc = "area"
    /\ area_out' = DeriveAreaM2(N(area_in), NoneV)
    /\ pc' = "done"
    /\ result' = "ok"
    /\ UNCHANGED <<email_data, analysis_data, caller, args, area_in>>
    /\ UNCHANGED runner_vars

NextArea == ConvertArea

SpecArea == InitArea /\ [][NextArea]_vars

(***************************************************************************)
(* The batch runner: BackgroundEmailProcessor.run fetches the unread       *)
(* emails and hands them one by one to process_email, which checks,        *)
(* classifies, analyses and saves. Two runners work on one mailbox and one *)
(* deals table; a step of a runner ends where it calls the deals table or  *)
(* returns a result of process_email, so that the calls of two runners     *)
(* interleave. What the mail service, the classifier, the analysis and the *)
(* table service answer is chosen freely among the answers they can give.  *)
(***************************************************************************)
\* self.min_confidence
min_confidence == 30

\* self.cutoff_date, the origin of the minutes in which received dates count
cutoff_date == 0

\* the most unread emails in the mailbox
MaxEmails == 2

Runners == {"first", "second"}

\* receivedDateTime: None, a string that does not parse, a string that parses
\* to a datetime without a UTC offset, or one with it, at minutes from the cutoff
Received(kind, at) == [kind |-> kind, at |-> at]

ReceivedDates ==
    {Received("none", 0), Received("unparsable", 0), Received("naive", 1),
     Received("aware", -1), Received("aware", 0), Received("aware", 1)}

\* an unread email as the fetch selects it: id, subject, receivedDateTime (and
\* fields the runner does not read); it has no email_id key
FetchedEmail(id, subject, received) ==
    [id |-> N(id), subject |-> subject, receivedDateTime |-> received, email_id |-> AbsentV]

\* the k-th unread email: any received date, or no subject
UnreadEmails(k) ==
    {FetchedEmail(k, Str("Deal"), d) : d \in ReceivedDates}
        \cup {FetchedEmail(k, NoneV, Received("aware", 1))}

RECURSIVE Mailboxes(_)
Mailboxes(n) ==
    IF n = 0 THEN {<<>>}
    ELSE {Append(m, e) : m \in Mailboxes(n - 1), e \in UnreadEmails(n)}

\* the confidence the classifier can give
Confidences == {10, 80}

\* the row insert_deal builds: email_id is the id of the email and confidence
\* is email_data.get('confidence', 0) of the fetched email, which has no such key
DealRow(email) == [email_id |-> email.id, confidence |-> 0]

\* rows of the deals table whose email_id equals the one asked for
RowsWith(email_id) == {n \in 1..Len(deals) : deals[n].email_id = email_id}

\* deal_exists: the query answers, or it raises and deal_exists returns False
deal_exists(email_id, answered) == answered /\ RowsWith(email_id) # {}

\* a variant whose table takes a second row with the same email_id
InsertRefusedWithoutUnique(email, delivered) == ~delivered

\* the table insert: refused (an exception in insert_deal) when a row with the
\* email_id is there, email_id being UNIQUE NOT NULL, or when the request fails
InsertRefused(email, delivered) == ~delivered \/ RowsWith(email.id) # {}

\* should_process_email, exists being what deal_exists(email_data.get('email_id'))
\* returned: (should_process, reason)
should_process_email(email, exists) ==
    LET received == email.receivedDateTime
    IN  IF received.kind = "none" THEN <<FALSE, "No received date">>
        ELSE IF received.kind \in {"unparsable", "naive"}
             THEN <<FALSE, "Date parse error">>
        ELSE IF received.at <= cutoff_date THEN <<FALSE, "Before cutoff">>
        ELSE IF exists THEN <<FALSE, "Already processed (duplicate)">>
        ELSE <<TRUE, "OK - New email after cutoff">>

\* a runner before run() is called
RunnerStart ==
    [pc |-> "run", results |-> <<>>, i |-> 0,
     processed_count |-> 0, skipped_count |-> 0, failed_count |-> 0,
     handed |-> <<>>, checked |-> <<>>, returned |-> <<>>,
     classified |-> {}, analysed |-> {}, saved |-> {}, inserted |-> {},
     confidence |-> 0]

InitRunner ==
    /\ mailbox \in UNION {Mailboxes(n) : n \in 1..MaxEmails}
    /\ deals = <<>>
    /\ run = [r \in Runners |-> RunnerStart]
    /\ caller = "runner" /\ pc = "runner" /\ result = "running"
    /\ email_data = NoData /\ analysis_data = NoData /\ args = NoData
    /\ area_in = 0 /\ area_out = NoneV

\* the email process_email of runner r is working on
Current(r) == run[r].results[run[r].i]

\* a variant in which a failed email ends the loop
ProcessEmailReturnedStopping(r, res, log) ==
    run' = [run EXCEPT ![r] =
               [log EXCEPT
                   !.returned = Append(@, res),
                   !.processed_count = IF res = "True" THEN @ + 1 ELSE @,
                   !.skipped_count = IF res = "False" THEN @ + 1 ELSE @,
                   !.failed_count = IF res \notin {"True", "False"} THEN @ + 1 ELSE @,
                   !.i = @ + 1,
                   !.pc = IF log.i = Len(log.results) \/ res = "None"
                          THEN "done" ELSE "process_email"]]

\* process_email of runner r returned res (True, False or None): run() counts it
\* and goes on with the next email, or ends its loop
ProcessEmailReturned(r, res, log) ==
    run' = [run EXCEPT ![r] =
               [log EXCEPT
                   !.returned = Append(@, res),
                   !.processed_count = IF res = "True" THEN @ + 1 ELSE @,
                   !.skipped_count = IF res = "False" THEN @ + 1 ELSE @,
                   !.failed_count = IF res \notin {"True", "False"} THEN @ + 1 ELSE @,
                   !.i = @ + 1,
                   !.pc = IF log.i = Len(log.results) THEN "done" ELSE "process_email"]]

\* run(): authentication and fetch; nothing fetched (or no authentication): return
Run_fetch(r) ==
    /\ caller = "runner" /\ run[r].pc = "run"
    /\ \E results \in {<<>>, mailbox} :
          run' = [run EXCEPT ![r].results = results,
                             ![r].i = 1,
                             ![r].pc = IF results = <<>> THEN "returned"
                                       ELSE "process_email"]
    /\ UNCHANGED <<deals, mailbox>> /\ UNCHANGED appraisal_vars

\* process_email up to the result of should_process_email: result['subject'][:60]
\* raises on a subject of None; deal_exists is asked for email_data.get('email_id')
ProcessEmail_check(r) ==
    /\ caller = "runner" /\ run[r].pc = "process_email"
    /\ LET email == Current(r)
           handed == [run[r] EXCEPT !.handed = Append(@, run[r].i)]
       IN  IF IsNone(email.subject)
           THEN ProcessEmailReturned(r, "None", handed)
           ELSE \E answered \in BOOLEAN :
                  LET should ==
                          should_process_email(
                              email, deal_exists(Get(email.email_id, NoneV), answered))
                      log == [handed EXCEPT !.checked = Append(@, <<run[r].i, should>>)]
                  IN  IF should[1]
                      THEN run' = [run EXCEPT ![r] = [log EXCEPT !.pc = "classify"]]
                      ELSE ProcessEmailReturned(r, "False", log)
    /\ UNCHANGED <<deals, mailbox>> /\ UNCHANGED appraisal_vars

\* process_single_email and run_comprehensive_analysis: either may fail
ProcessEmail_analyse(r) ==
    /\ caller = "runner" /\ run[r].pc = "classify"
    /\ \E raised \in BOOLEAN, confidence \in Confidences, analysis_ok \in BOOLEAN :
          LET classified == [run[r] EXCEPT !.classified = @ \cup {run[r].i},
                                           !.confidence = confidence]
              analysed == [classified EXCEPT !.analysed = @ \cup {run[r].i}]
          IN  IF raised THEN ProcessEmailReturned(r, "None", classified)
              ELSE IF ~analysis_ok THEN ProcessEmailReturned(r, "None", analysed)
              ELSE run' = [run EXCEPT ![r] = [analysed EXCEPT !.pc = "insert_deal"]]
    /\ UNCHANGED <<deals, mailbox>> /\ UNCHANGED appraisal_vars

\* insert_deal: deal_exists(email_data.get('id'))
InsertDeal_exists(r) ==
    /\ caller = "runner" /\ run[r].pc = "insert_deal"
    /\ \E answered \in BOOLEAN :
          LET saved == [run[r] EXCEPT !.saved = @ \cup {run[r].i}]
          IN  IF deal_exists(Current(r).id, answered)
              THEN ProcessEmailReturned(r, "None", saved)
              ELSE run' = [run EXCEPT ![r] = [saved EXCEPT !.pc = "insert"]]
    /\ UNCHANGED <<deals, mailbox>> /\ UNCHANGED appraisal_vars

\* insert_deal: the insert into the table
InsertDeal_insert(r) ==
    /\ caller = "runner" /\ run[r].pc = "insert"
    /\ \E delivered \in BOOLEAN :
          IF InsertRefused(Current(r), delivered)
          THEN /\ ProcessEmailReturned(r, "None", run[r])
               /\ UNCHANGED deals
          ELSE /\ deals' = Append(deals, DealRow(Current(r)))
               /\ ProcessEmailReturned(r, "True",
                                       [run[r] EXCEPT !.inserted = @ \cup {run[r].i}])
    /\ UNCHANGED mailbox /\ UNCHANGED appraisal_vars

NextRunner ==
    \E r \in Runners :
        \/ Run_fetch(r)
        \/ ProcessEmail_check(r)
        \/ ProcessEmail_analyse(r)
        \/ InsertDeal_exists(r)
        \/ InsertDeal_insert(r)

SpecRunner == InitRunner /\ [][NextRunner]_vars

(***************************************************************************)
(* Properties                                                              *)
(***************************************************************************)
StageNames ==
    {"deal_appraisal", "gdv", "acquisition_costs", "build_costs", "professional_fees",
     "statutory_costs", "total_development_costs", "profit_pre_funding",
     "finance_costs", "lenders_other_costs", "total_funding_costs", "selling_costs",
     "total_costs", "net_profit_analysis", "lending_analysis", "post_development",
     "funding_workings", "kpis"}

Has(stage) == stage \in DOMAIN analysis_data
\* the record of a stage, once there, holds None in every field
NoneIn(stage) == Has(stage) => AllNone(analysis_data[stage])
\* every split of a funding workings record holds None three times
AllNoneSplits(rec) == \A k \in DOMAIN rec : AllNone(rec[k])
\* |x| <= tol
WithinOf(x, tol) == Le(x, tol) /\ Ge(x, Neg(tol))

\* ---- C1 ----------------------------------------------------------------
\* the acquisition total and the development total are both there when
\* finance_costs is called
BothTotalsAvailable ==
    /\ Has("total_development_costs")
    /\ ~IsNone(analysis_data["acquisition_costs"].total_acquisition_costs)
    /\ ~IsNone(analysis_data["total_development_costs"].total_development_costs)

\* C1: run_comprehensive_analysis runs every stage and returns all 18 stage
\* records: a run with the acquisition total and the development total
\* available at finance_costs never ends with None, and a finished run holds
\* the record of every stage.
C1_RunReturnsEveryStage ==
    /\ BothTotalsAvailable => result # "None"
    /\ pc = "done" => DOMAIN analysis_data = StageNames

\* ---- C2 ----------------------------------------------------------------
NullRecord(stage) ==
    CASE stage = "deal_appraisal" -> deal_appraisal_null
      [] stage = "acquisition_costs" -> acquisition_costs_null
      [] stage = "build_costs" -> build_costs_null
      [] stage = "professional_fees" -> professional_fees_null
      [] stage = "statutory_costs" -> statutory_costs_null
      [] stage = "total_development_costs" -> total_development_costs_null
      [] stage = "profit_pre_funding" -> profit_pre_funding_costs_null
      [] stage = "finance_costs" -> finance_costs_null
      [] stage = "total_funding_costs" -> total_funding_costs_null
      [] stage = "selling_costs" -> selling_costs_null
      [] stage = "total_costs" -> total_costs_null
      [] stage = "net_profit_analysis" -> net_profit_analysis_null
      [] stage = "lending_analysis" -> lending_analysis_null
      [] stage = "post_development" -> post_development_analysis_null
      [] stage = "funding_workings" -> funding_workings_null
      [] stage = "kpis" -> calculate_kpis_null

GuardedStages == StageNames \ {"gdv", "lenders_other_costs"}

\* the stage took its success branch: some value of its record is not None
Succeeded(stage) ==
    /\ Has(stage)
    /\ IF stage = "funding_workings"
       THEN ~AllNoneSplits(analysis_data[stage])
       ELSE ~AllNone(analysis_data[stage])

\* C2: schema stability: whatever branch a stage with a null fallback took,
\* the record it returned has the keys of its null-fallback record (and each
\* split of the funding workings the keys own, borrow, total).
C2_SchemaStability ==
    \A stage \in GuardedStages \cap DOMAIN analysis_data :
        /\ DOMAIN analysis_data[stage] = DOMAIN NullRecord(stage)
        /\ stage = "funding_workings" =>
               \A k \in DOMAIN analysis_data[stage] :
                   DOMAIN analysis_data[stage][k] = DOMAIN funding_workings_null[k]

\* a finished run in which each of the sixteen stages took its success branch
C2_Witness ==
    /\ caller = "direct" /\ pc = "done"
    /\ \A stage \in GuardedStages : Succeeded(stage)

\* ---- C3 ----------------------------------------------------------------
\* the GDV list has a totals row and its amount is None
AmountMissing ==
    /\ Has("gdv")
    /\ HasRows(analysis_data["gdv"])
    /\ IsNone(Last(analysis_data["gdv"]).amount)

\* C3 (as stated): with a totals row whose amount is None, Build Costs,
\* Professional Fees, Statutory Costs, Profit Pre-Funding, Net Profit Analysis,
\* Lending Analysis, Post-Development Analysis and the KPI record hold None in
\* every field, whatever the units, the average area and the asking price.
C3_NullPropagationToAllEight ==
    AmountMissing =>
        \A stage \in {"build_costs", "professional_fees", "statutory_costs",
                      "profit_pre_funding", "net_profit_analysis", "lending_analysis",
                      "post_development", "kpis"} : NoneIn(stage)

\* C3 (amended): with a totals row whose amount is None, Professional Fees,
\* Profit Pre-Funding, Net Profit Analysis, Lending Analysis and
\* Post-Development Analysis hold None in every field and the statutory
\* percent of GDV is None; Build Costs is all None exactly when the units or the
\* average m2 of the totals row are missing or zero, Statutory Costs exactly
\* when the units are, and the KPI record exactly when it was handed an empty
\* record.
C3_NullPropagationByGuard ==
    AmountMissing =>
        LET totals == Last(analysis_data["gdv"])
        IN  /\ \A stage \in {"professional_fees", "profit_pre_funding",
                             "net_profit_analysis", "lending_analysis",
                             "post_development"} : NoneIn(stage)
            /\ Has("statutory_costs") =>
                   /\ IsNone(analysis_data["statutory_costs"].statutory_costs_percent)
                   /\ AllNone(analysis_data["statutory_costs"])
                          <=> ~Truthy(totals.no_of_units)
            /\ Has("build_costs") =>
                   (AllNone(analysis_data["build_costs"])
                       <=> ~(Truthy(totals.no_of_units)
                             /\ Truthy(totals.average_sqm_per_unit)))
            /\ Has("kpis") => (AllNone(analysis_data["kpis"]) <=> args.omit)

\* a finished run on a totals row without amount in which Build Costs,
\* Statutory Costs and the KPI record hold numbers
C3_Witness ==
    /\ caller = "direct" /\ pc = "done" /\ AmountMissing
    /\ IsNum(analysis_data["build_costs"].build_costs_total)
    /\ IsNum(analysis_data["statutory_costs"].statutory_costs_total)
    /\ IsNum(analysis_data["kpis"].own_funds_needed)
    /\ AllNone(analysis_data["post_development"])

\* ---- C4 ----------------------------------------------------------------
EmptyFloors == caller = "batch" /\ email_data.property_details.floors = <<>>

AfterGdv ==
    {"build_costs", "professional_fees", "statutory_costs", "total_development_costs",
     "profit_pre_funding", "finance_costs", "lenders_other_costs",
     "total_funding_costs", "selling_costs", "total_costs", "net_profit_analysis",
     "lending_analysis", "post_development", "funding_workings", "kpis"}

\* C4 (as stated): with an empty floors list gross_development_value returns
\* the empty list and every stage after it, lenders' other costs, funding
\* workings and KPIs included, returns a record whose values are all None.
C4_EmptyFloorsAllNone ==
    EmptyFloors =>
        /\ Has("gdv") => analysis_data["gdv"] = <<>>
        /\ \A stage \in AfterGdv \ {"funding_workings"} : NoneIn(stage)
        /\ Has("funding_workings") => AllNoneSplits(analysis_data["funding_workings"])

\* C4 (amended): with an empty floors list gross_development_value returns the
\* empty list and every stage after it returns a record whose values are all
\* None, except lenders' other costs (no guard: numbers from the default
\* duration), funding workings (None counted as 0: every split numeric, the
\* development, statutory, funding and selling lines 0) and the KPI record
\* (filled from the funding workings).
C4_EmptyFloorsNoneButUnguarded ==
    EmptyFloors =>
        /\ Has("gdv") => analysis_data["gdv"] = <<>>
        /\ \A stage \in AfterGdv \ {"lenders_other_costs", "funding_workings", "kpis"} :
               NoneIn(stage)
        /\ Has("lenders_other_costs") =>
               \A k \in DOMAIN analysis_data["lenders_other_costs"] :
                   IsNum(analysis_data["lenders_other_costs"][k])
        /\ Has("funding_workings") =>
               LET fw == analysis_data["funding_workings"]
               IN  /\ \A k \in DOMAIN fw : \A part \in DOMAIN fw[k] : IsNum(fw[k][part])
                   /\ \A k \in {"build_costs_total", "professional_fees_total",
                                "statutory_costs_total", "funding_costs_total",
                                "selling_costs_total"} : IsZero(fw[k].total)
        /\ Has("kpis") => IsNum(analysis_data["kpis"].own_funds_needed)

\* a finished run on an empty floors list
C4_Witness ==
    /\ EmptyFloors /\ pc = "done"
    /\ analysis_data["gdv"] = <<>>
    /\ AllNone(analysis_data["total_costs"])
    /\ IsNum(analysis_data["lenders_other_costs"].lenders_other_costs_total)

\* ---- C5 ----------------------------------------------------------------
\* there are floors, and no accommodation entry has both a price per unit and
\* a unit count
NoPricedEntry ==
    LET floors == email_data.property_details.floors
    IN  /\ caller = "batch"
        /\ floors # <<>>
        /\ \A i \in DOMAIN floors :
               \A j \in DOMAIN floors[i].accommodation_types :
                   LET accom == floors[i].accommodation_types[j]
                   IN  ~(Truthy(accom.price_per_unit) /\ Truthy(accom.units))

\* C5: end to end, when no accommodation entry has both a price and a unit
\* count, professional fees, profit pre-funding, selling costs, net profit,
\* lending analysis and post-development analysis hold None in every field:
\* the missing amounts are not turned into a GDV of zero taken as known.
C5_NoPriceNoGdv ==
    NoPricedEntry =>
        \A stage \in {"professional_fees", "profit_pre_funding", "selling_costs",
                      "net_profit_analysis", "lending_analysis", "post_development"} :
            NoneIn(stage)

\* ---- C6 ----------------------------------------------------------------
\* funding_workings took its success branch
FwSuccess ==
    /\ caller = "direct" /\ Has("funding_workings")
    /\ ~args.omit

Balanced(split) == EqNum(Add(split.own, split.borrow), split.total)

\* the sum of one part (own or borrow) over the ten individual cost lines
SumOfLines(fw, part) ==
    Add(Add(Add(Add(Add(Add(Add(Add(Add(fw.asking_price[part], fw.stamp_duty[part]),
        fw.sourcing_fee[part]), fw.building_insurance[part]),
        fw.legal_professional_costs[part]), fw.build_costs_total[part]),
        fw.professional_fees_total[part]), fw.statutory_costs_total[part]),
        fw.funding_costs_total[part]), fw.selling_costs_total[part])

\* C6: on the success branch of funding_workings own + borrow = total for each
\* of the twelve line items, and the own (borrow) of the grand total is the sum
\* of the own (borrow) of the individual cost lines, whichever upstream values
\* are None.
C6_FundingSplitBalances ==
    FwSuccess =>
        LET fw == analysis_data["funding_workings"]
        IN  /\ \A k \in DOMAIN fw : Balanced(fw[k])
            /\ EqNum(fw.total_costs.own, SumOfLines(fw, "own"))
            /\ EqNum(fw.total_costs.borrow, SumOfLines(fw, "borrow"))

\* a schedule with a land loan and borrowed development costs
C6_Witness ==
    /\ FwSuccess
    /\ Positive(analysis_data["funding_workings"].asking_price.borrow)
    /\ Positive(analysis_data["funding_workings"].build_costs_total.borrow)
    /\ Positive(analysis_data["funding_workings"].selling_costs_total.own)

\* ---- C7 ----------------------------------------------------------------
\* lending_analysis was called and passed its guard
LendingPassed ==
    /\ caller = "direct" /\ Has("lending_analysis")
    /\ ~IsNone(analysis_data["total_costs"].total_costs)
    /\ HasRows(analysis_data["gdv"])
    /\ ~IsNone(Last(analysis_data["gdv"]).amount)

\* C7: past its guard, lending_analysis reports max_loan_ltc = 0.85 x total
\* costs, max_loan_ltgdv = 0.70 x GDV amount, maximum_loan_amount the lower of
\* the two, and reduce_costs_by > 0 exactly when max_loan_ltc < total costs.
C7_LendingCap ==
    LendingPassed =>
        LET la == analysis_data["lending_analysis"]
            total == analysis_data["total_costs"].total_costs
            gdv_total == Last(analysis_data["gdv"]).amount
        IN  /\ EqNum(la.max_loan_ltc, Mul(total, Num(85, 100)))
            /\ EqNum(la.max_loan_ltgdv, Mul(gdv_total, Num(70, 100)))
            /\ Le(la.maximum_loan_amount, la.max_loan_ltc)
            /\ Le(la.maximum_loan_amount, la.max_loan_ltgdv)
            /\ EqNum(la.maximum_loan_amount, la.max_loan_ltc)
                   \/ EqNum(la.maximum_loan_amount, la.max_loan_ltgdv)
            /\ Gt(la.reduce_costs_by, N(0)) <=> Lt(la.max_loan_ltc, total)

\* the two criteria differ, the GDV one binds and costs have to come down
C7_Witness ==
    /\ LendingPassed
    /\ Lt(analysis_data["lending_analysis"].max_loan_ltgdv,
          analysis_data["lending_analysis"].max_loan_ltc)
    /\ Gt(analysis_data["lending_analysis"].reduce_costs_by, N(0))

\* ---- C8 ----------------------------------------------------------------
\* the units of the rows, added up (a row without units adds nothing)
RECURSIVE UnitsOver(_)
UnitsOver(rows) ==
    IF rows = <<>> THEN N(0)
    ELSE IF IsNone(Head(rows).no_of_units) THEN UnitsOver(Tail(rows))
    ELSE Add(Head(rows).no_of_units, UnitsOver(Tail(rows)))

\* the amounts of the rows whose amount is not None, added up
RECURSIVE AmountsOver(_)
AmountsOver(rows) ==
    IF rows = <<>> THEN N(0)
    ELSE IF IsNone(Head(rows).amount) THEN AmountsOver(Tail(rows))
    ELSE Add(Head(rows).amount, AmountsOver(Tail(rows)))

\* the GDV list was built from floors holding at least one accommodation entry
GdvBuilt ==
    /\ caller = "batch" /\ Has("gdv")
    /\ \E i \in DOMAIN email_data.property_details.floors :
           email_data.property_details.floors[i].accommodation_types # <<>>

\* C8: the GDV list built from floors with at least one accommodation entry
\* ends with the one row of market type 'Residential - Total'; its no_of_units
\* is the sum of no_of_units over the other rows and its amount the sum of the
\* amounts that are not None.
C8_GdvTotalsConsistency ==
    GdvBuilt =>
        LET gdv == analysis_data["gdv"]
            rows == SubSeq(gdv, 1, Len(gdv) - 1)
        IN  /\ Len(gdv) >= 2
            /\ Last(gdv).market_type = Str("Residential - Total")
            /\ \A i \in DOMAIN rows : rows[i].market_type # Str("Residential - Total")
            /\ EqNum(Last(gdv).no_of_units, UnitsOver(rows))
            /\ EqNum(Last(gdv).amount, AmountsOver(rows))

\* rows with and without an amount under one totals row
C8_Witness ==
    /\ GdvBuilt
    /\ Len(analysis_data["gdv"]) >= 3
    /\ \E i \in 1..(Len(analysis_data["gdv"]) - 1) : IsNone(analysis_data["gdv"][i].amount)
    /\ \E i \in 1..(Len(analysis_data["gdv"]) - 1) : IsNum(analysis_data["gdv"][i].amount)
    /\ Positive(Last(analysis_data["gdv"]).amount)

\* ---- C9 ----------------------------------------------------------------
Converted == caller = "area" /\ pc = "done"

\* the derived area has one decimal and is the nearest such to sqft * 0.092903
DerivedToOneDecimal ==
    /\ IsNum(area_out) /\ IsPlain(area_out)
    /\ area_out.d \in {1, 2, 5, 10}
    /\ WithinOf(Sub(area_out, Mul(N(area_in), Num(92903, 1000000))), Num(5, 100))

\* the derived area_m2 taken back to square feet, less the area given
BackDifference == Sub(Mul(area_out, Num(10764, 1000)), N(area_in))

\* C9 (as stated): the derived area_m2 is area_sqft x 0.092903 rounded to one
\* decimal, and x 10.764 takes it back to within 0.1 of the area_sqft given.
C9_RoundTripWithinTenth ==
    Converted => DerivedToOneDecimal /\ WithinOf(BackDifference, Num(1, 10))

\* C9 (amended): the derived area_m2 is area_sqft x 0.092903 rounded to one
\* decimal, and x 10.764 takes it back to within 0.5382 + 0.000008 x area_sqft
\* of the area_sqft given (0.05 m2 of rounding is 0.5382 sq ft).
C9_RoundTripWithinRounding ==
    Converted =>
        /\ DerivedToOneDecimal
        /\ WithinOf(BackDifference,
                    Add(Num(5382, 10000), Mul(N(area_in), Num(8, 1000000))))

\* 500 sq ft become 46.5 m2, which is 500.526 sq ft
C9_Witness ==
    /\ Converted /\ area_in = 500
    /\ EqNum(area_out, Num(465, 10))
    /\ EqNum(BackDifference, Num(526, 1000))

\* ---- C10 ---------------------------------------------------------------
\* deal_appraisal returned, asking price and reduction both given
AppraisalOfBoth ==
    /\ caller = "batch" /\ Has("deal_appraisal")
    /\ LET details == email_data.property_details
       IN  /\ ~IsNone(details.asking_price)
           /\ ~IsNone(details.reduction_to_achieve_target_profit_percentage_gdv)

\* C10: with asking price and reduction given, the strike price is asking -
\* reduction, the reduction and strike percentages are their shares of the
\* asking price on the scale of asking_price_percent, so that reduction % +
\* strike % = asking price %; with either missing all six fields are None.
C10_DealAppraisalPercentages ==
    /\ AppraisalOfBoth =>
           LET da == analysis_data["deal_appraisal"]
               ask == email_data.property_details.asking_price
               details == email_data.property_details
               red == details.reduction_to_achieve_target_profit_percentage_gdv
           IN  /\ EqNum(da.target_strike_price, Sub(ask, red))
               /\ EqNum(Add(da.reduction_to_achieve_target_profit_percentage_gdv_percent,
                            da.target_strike_price_percent),
                        da.asking_price_percent)
    /\ (caller = "batch" /\ Has("deal_appraisal") /\ ~AppraisalOfBoth) =>
           AllNone(analysis_data["deal_appraisal"])

\* ---- C11 ---------------------------------------------------------------
\* build_costs was called on the GDV list of the run
BuildCalled == caller = "direct" /\ Has("build_costs")

\* the totals row has units and an average m2, neither zero
BuildGuardPassed ==
    /\ BuildCalled
    /\ HasRows(analysis_data["gdv"])
    /\ Truthy(Last(analysis_data["gdv"]).no_of_units)
    /\ Truthy(Last(analysis_data["gdv"]).average_sqm_per_unit)

\* C11: on a totals row with non-zero units and average m2, NIA = units x
\* average m2, GIA = NIA x 1.2, total_build_costs = GIA x 1200, the
\* contingency is 10% of (total_build_costs + landscaping_costs),
\* build_costs_total is the sum of the three and cost_per_flat is
\* total_build_costs / units (84 units of 40 m2: 3360, 4032, 4,838,400,
\* 483,840 and 5,322,240); with units or average m2 missing or zero every
\* field is None.
C11_BuildCosts ==
    BuildCalled =>
        \E bc \in {analysis_data["build_costs"]} :
            IF BuildGuardPassed
            THEN \E units \in {Last(analysis_data["gdv"]).no_of_units},
                    sqm \in {Last(analysis_data["gdv"]).average_sqm_per_unit} :
                     /\ EqNum(bc.NIA, Mul(units, sqm))
                     /\ EqNum(bc.GIA, Mul(bc.NIA, Num(12, 10)))
                     /\ EqNum(bc.total_build_costs, Mul(bc.GIA, N(1200)))
                     /\ EqNum(bc.build_contingency_amount,
                              Mul(Add(bc.total_build_costs, bc.landscaping_costs),
                                  Num(10, 100)))
                     /\ EqNum(bc.build_costs_total,
                              Add(Add(bc.total_build_costs, bc.landscaping_costs),
                                  bc.build_contingency_amount))
                     /\ EqNum(bc.cost_per_flat, Div(bc.total_build_costs, units))
                     /\ (units = N(84) /\ sqm = N(40)) =>
                            /\ bc.NIA = N(3360)
                            /\ bc.GIA = N(4032)
                            /\ bc.total_build_costs = N(4838400)
                            /\ bc.build_contingency_amount = N(483840)
                            /\ bc.build_costs_total = N(5322240)
            ELSE AllNone(bc)

\* 84 units of 40 m2 each, costed
C11_Witness ==
    /\ BuildGuardPassed
    /\ Last(analysis_data["gdv"]).no_of_units = N(84)
    /\ Last(analysis_data["gdv"]).average_sqm_per_unit = N(40)
    /\ analysis_data["build_costs"].build_costs_total = N(5322240)

FinanceReturned == caller = "direct" /\ Has("finance_costs")

\* what the record tells of each of the two loans
FinanceLoanParts ==
    {"ltv", "lending_amount", "interest_annual", "interest_monthly", "duration_months",
     "interest_total", "entry_fee_percent", "entry_fee", "exit_fee_percent", "exit_fee"}

\* C13 (as stated): the Finance Costs record has exactly 20 keys, the same on
\* the success branch and on the null-fallback branch.
C13_FinanceRecordHas20Keys ==
    FinanceReturned =>
        /\ Cardinality(DOMAIN analysis_data["finance_costs"]) = 20
        /\ DOMAIN analysis_data["finance_costs"] = DOMAIN finance_costs_null

\* C13 (amended): the Finance Costs record has exactly 21 keys (ten for the
\* land loan, ten for the development loan and finance_costs_total), the same
\* on the success branch and on the null-fallback branch.
C13_FinanceRecordHas21Keys ==
    FinanceReturned =>
        /\ Cardinality(DOMAIN analysis_data["finance_costs"]) = 21
        /\ DOMAIN analysis_data["finance_costs"] = DOMAIN finance_costs_null
        /\ DOMAIN analysis_data["finance_costs"] =
               {"finance_costs_total"}
                   \cup {loan \o "_" \o part : loan \in {"land", "development"},
                                              part \in FinanceLoanParts}

\* finance_costs on its success branch: the total of the six components
C13_Witness ==
    /\ FinanceReturned
    /\ Positive(analysis_data["finance_costs"].finance_costs_total)
    /\ IsNum(analysis_data["finance_costs"].development_exit_fee)


\* ---------------------------------------------------------------------------
\* C14  order of the stage calls of run_comprehensive_analysis

\* the stage whose record a parameter of a stage function names
ArgumentNames ==
    [gdv_dict |-> "gdv", acquisition_dict |-> "acquisition_costs",
     build_cost_dict |-> "build_costs", prof_fees_dict |-> "professional_fees",
     statutory_dict |-> "statutory_costs", dev_costs_dict |-> "total_development_costs",
     finance_dict |-> "finance_costs", lenders_dict |-> "lenders_other_costs",
     funding_costs_dict |-> "total_funding_costs", selling_dict |-> "selling_costs",
     total_costs_dict |-> "total_costs", net_profit_dict |-> "net_profit_analysis",
     lending_dict |-> "lending_analysis", post_dev_dict |-> "post_development",
     funding_workings_dict |-> "funding_workings"]

\* a stage call of the batch has just been made
BatchCalled(stage) == caller = "batch" /\ args # NoData /\ args.stage = stage

\* every record a call is handed was stored by a stage that returned before the call
C14_CalledAfterProducers ==
    [][caller = "batch" =>
          \A p \in DOMAIN args'.passed : args'.passed[p] \in DOMAIN analysis_data]_vars

\* C14: in the batch every stage is called only after each stage whose record it
\* takes has returned, and the record passed for each argument is the one
\* produced by the stage that the argument names
C14_DependencyOrder ==
    [][caller = "batch" =>
          \A p \in DOMAIN args'.passed :
              /\ args'.passed[p] \in DOMAIN analysis_data
              /\ args'.passed[p] = ArgumentNames[p]]_vars

\* the KPI call was made with both the lending analysis record and the lenders
\* other costs record of the run stored
C14_Witness ==
    /\ BatchCalled("kpis")
    /\ Has("lending_analysis") /\ Has("lenders_other_costs")
    /\ result = "ok"


\* ---------------------------------------------------------------------------
\* C15  the lending input of the KPI aggregator in the batch

\* C15: in the batch calculate_kpis receives the record of lending_analysis as
\* its lending_dict, so the KPI record is the one computed from the lending
\* analysis record of the same run
C15_KpiReceivesLendingAnalysis ==
    BatchCalled("kpis") =>
        /\ args.passed.lending_dict = "lending_analysis"
        /\ Has("kpis") =>
              analysis_data["kpis"] =
                  calculate_kpis(email_data,
                                 analysis_data["funding_workings"],
                                 analysis_data["net_profit_analysis"],
                                 analysis_data["lending_analysis"],
                                 analysis_data["post_development"],
                                 BatchTimelineMonths(email_data))


\* ---------------------------------------------------------------------------
\* C16  reduce_loan_by of the lending analysis

\* C16: reduce_loan_by is positive, the amount by which the LTC-derived loan
\* exceeds the LTGDV cap, whenever 0.70 x GDV is below 0.85 x total costs, and
\* 0 otherwise
C16_ReduceLoanBy ==
    LendingPassed =>
        LET la == analysis_data["lending_analysis"]
        IN  IF Lt(la.max_loan_ltgdv, la.max_loan_ltc)
            THEN /\ Positive(la.reduce_loan_by)
                 /\ EqNum(la.reduce_loan_by, Sub(la.max_loan_ltc, la.max_loan_ltgdv))
            ELSE IsZero(la.reduce_loan_by)

\* what the code gives: reduce_loan_by is 0 on every success branch
C16_ReduceLoanByIsZero ==
    LendingPassed => IsZero(analysis_data["lending_analysis"].reduce_loan_by)


\* ---------------------------------------------------------------------------
\* C17  professional_fees on every combination of upstream values

\* the fee fields of a professional fees record
ProfessionalFeeFields(pf) ==
    <<pf.architect_fee, pf.town_planner_fee, pf.structural_engineer_fee,
      pf.building_control_fee, pf.project_management_fee,
      pf.quantity_surveyor_fee, pf.structural_warranty_fee>>

\* C17: professional_fees returns a record without raising whatever the earlier
\* stages produced; with a GDV amount the total is the sum of the fees that are
\* not None and the structural warranty fee is 1% of (build costs total +
\* acquisition total) or None; without a GDV amount every field is None
C17_ProfessionalFeesNeverRaises ==
    BatchCalled("professional_fees") =>
        /\ Has("professional_fees")
        /\ LET pf == analysis_data["professional_fees"]
               gdv_dict == analysis_data["gdv"]
               build_total == analysis_data["build_costs"].build_costs_total
               acq_total == analysis_data["acquisition_costs"].total_acquisition_costs
           IN  IF HasRows(gdv_dict) /\ Truthy(Last(gdv_dict).amount)
               THEN /\ EqNum(pf.professional_fees_total,
                             SumNotNone(ProfessionalFeeFields(pf)))
                    /\ \/ IsNone(pf.structural_warranty_fee)
                       \/ EqNum(pf.structural_warranty_fee,
                                Mul(Add(build_total, acq_total), Num(1, 100)))
               ELSE AllNone(pf)

\* what the code gives: the call raises exactly when the GDV amount and the
\* build costs total are present and the acquisition total is None
C17_RaisesWithoutAcquisitionTotal ==
    BatchCalled("professional_fees") =>
        (~Has("professional_fees") <=>
            /\ HasRows(analysis_data["gdv"])
            /\ Truthy(Last(analysis_data["gdv"]).amount)
            /\ Truthy(analysis_data["build_costs"].build_costs_total)
            /\ IsNone(analysis_data["acquisition_costs"].total_acquisition_costs))


\* ---------------------------------------------------------------------------
\* C18  divisions by zero

\* the value is a number and it is 0
ZeroNum(v) == IsNum(v) /\ IsZero(v)

\* the guard of the stage passes on what the stage is handed and one of its
\* divisors is 0. build_costs, statutory_costs, total_funding_costs,
\* selling_costs, lending_analysis and calculate_kpis test every divisor for truthiness or
\* "> 0" before dividing, so they have no such input
ZeroDivisor(stage) ==
    LET pd == email_data.property_details
        gdv_dict == analysis_data["gdv"]
        amount == Last(gdv_dict).amount
        acq == analysis_data["acquisition_costs"].total_acquisition_costs
    IN  CASE stage = "deal_appraisal" ->
                /\ ~IsNone(pd.asking_price)
                /\ ~IsNone(pd.reduction_to_achieve_target_profit_percentage_gdv)
                /\ ZeroNum(pd.asking_price)
          [] stage = "total_development_costs" ->
                LET b == analysis_data["build_costs"].build_costs_total
                    p == analysis_data["professional_fees"].professional_fees_total
                    s == analysis_data["statutory_costs"].statutory_costs_total
                IN  /\ ~IsNone(b) /\ ~IsNone(p) /\ ~IsNone(s)
                    /\ ZeroNum(Add(Add(b, p), s))
          [] stage = "profit_pre_funding" ->
                LET dev == analysis_data["total_development_costs"].total_development_costs
                IN  /\ HasRows(gdv_dict) /\ ~IsNone(amount)
                    /\ ~IsNone(acq) /\ ~IsNone(dev)
                    /\ (ZeroNum(amount) \/ ZeroNum(Add(acq, dev)))
          [] stage = "total_costs" ->
                LET dev == analysis_data["total_development_costs"].total_development_costs
                    fund == analysis_data["total_funding_costs"].funding_costs_total
                    sell == analysis_data["selling_costs"].selling_costs_total
                IN  /\ ~IsNone(acq) /\ ~IsNone(dev) /\ ~IsNone(fund) /\ ~IsNone(sell)
                    /\ ZeroNum(Add(Add(Add(acq, dev), fund), sell))
          [] stage = "net_profit_analysis" ->
                LET total == analysis_data["total_costs"].total_costs
                IN  /\ HasRows(gdv_dict) /\ ~IsNone(amount) /\ ~IsNone(total)
                    /\ (ZeroNum(amount) \/ ZeroNum(total))
          [] OTHER -> FALSE

\* C18: no stage divides by zero: whenever a stage is called on input that
\* passes its guard, the value 0 included, every divisor is non-zero
C18_NoDivisionByZero ==
    \A stage \in StageNames : BatchCalled(stage) => ~ZeroDivisor(stage)

\* what the code gives: in the batch the only division by zero is the one of
\* deal_appraisal by an asking price of 0
C18_OnlyDealAppraisalDividesByZero ==
    \A stage \in StageNames \ {"deal_appraisal"} :
        BatchCalled(stage) => ~ZeroDivisor(stage)


\* ---------------------------------------------------------------------------
\* C19  the lending criteria flags of the KPI record

\* a direct call of calculate_kpis took its success branch
KpiSucceeded == caller = "direct" /\ Has("kpis") /\ ~AllNone(analysis_data["kpis"])

\* 'Yes' when loan / base is at most the cap, 'No' when it is greater
CriteriaFlag(loan, base, cap) ==
    IF Le(Div(loan, base), cap) THEN Str("Yes") ELSE Str("No")

\* C19: lending_criteria_ltgdv is 'Yes' or 'No' as maximum loan / GDV is at most
\* 0.70 or not, GDV being the amount of the totals row of the appraisal, and
\* 'Unknown' only when that amount is unavailable or not positive;
\* lending_criteria_ltc is 'Yes' or 'No' as maximum loan / total costs is at
\* most 0.85 or not, and 'Unknown' only when total costs is not positive
C19_LendingCriteriaFlags ==
    KpiSucceeded =>
        LET k == analysis_data["kpis"]
            gdv_dict == analysis_data["gdv"]
            max_loan == KpiMaxLoan(analysis_data["lending_analysis"])
            total == SplitPart(analysis_data["funding_workings"], "total_costs", "total")
        IN  /\ k.lending_criteria_ltgdv =
                  (IF HasRows(gdv_dict) /\ IsNum(Last(gdv_dict).amount)
                      /\ Positive(Last(gdv_dict).amount)
                   THEN CriteriaFlag(max_loan, Last(gdv_dict).amount, Num(70, 100))
                   ELSE Str("Unknown"))
            /\ k.lending_criteria_ltc =
                  (IF Gt(total, N(0))
                   THEN CriteriaFlag(max_loan, total, Num(85, 100))
                   ELSE Str("Unknown"))

\* what the code gives: the LTGDV flag is computed from the gdv field of the
\* email's property details; the LTC flag is as claimed
C19_LtgdvFlagUsesEmailGdv ==
    KpiSucceeded =>
        LET k == analysis_data["kpis"]
            gdv_total == email_data.property_details.gdv
            max_loan == KpiMaxLoan(analysis_data["lending_analysis"])
            total == SplitPart(analysis_data["funding_workings"], "total_costs", "total")
        IN  /\ k.lending_criteria_ltgdv =
                  (IF IsNum(gdv_total) /\ Positive(gdv_total)
                   THEN CriteriaFlag(max_loan, gdv_total, Num(70, 100))
                   ELSE Str("Unknown"))
            /\ k.lending_criteria_ltc =
                  (IF Gt(total, N(0))
                   THEN CriteriaFlag(max_loan, total, Num(85, 100))
                   ELSE Str("Unknown"))


\* ---------------------------------------------------------------------------
\* C20  return on own funds of the KPI record

\* the months the KPI call annualises over: those supplied, 18 when None
KpiMonths == IF IsNone(args.kpi_timeline_months) THEN N(18) ELSE args.kpi_timeline_months

\* return_on_own_funds and return_on_own_funds_per_annum of the KPI record k
\* are its net profit / own_funds_needed and that over (months / 12) when
\* own_funds_needed is strictly positive, and None otherwise
KpiReturnOnOwnFunds(k) ==
    LET net_profit == k.net_profit
    IN  IF IsNum(k.own_funds_needed) /\ Positive(k.own_funds_needed)
        THEN /\ k.return_on_own_funds = Div(net_profit, k.own_funds_needed)
             /\ k.return_on_own_funds_per_annum =
                    Div(k.return_on_own_funds, Div(KpiMonths, N(12)))
        ELSE IsNone(k.return_on_own_funds) /\ IsNone(k.return_on_own_funds_per_annum)

\* C20: on the success branch own_funds_needed is the grand-total own amount of
\* the funding workings; when it is strictly positive return_on_own_funds =
\* net profit / own_funds_needed and return_on_own_funds_per_annum =
\* return_on_own_funds / (months / 12), the months being those supplied to the
\* call and 18 only when none is supplied, whatever the 18 months of the
\* lending analysis; otherwise both are None
C20_KpiReturnOnOwnFunds ==
    KpiSucceeded =>
        LET k == analysis_data["kpis"]
            own == analysis_data["funding_workings"]["total_costs"].own
            net_profit == analysis_data["net_profit_analysis"].net_profit
        IN  /\ k.own_funds_needed = own
            /\ IsNum(net_profit) => k.net_profit = net_profit
            /\ KpiReturnOnOwnFunds(k)

\* a KPI record with a positive own_funds_needed, annualised over 24 months,
\* beside a lending analysis that annualised over 18
C20_Witness ==
    /\ KpiSucceeded
    /\ Positive(analysis_data["kpis"].own_funds_needed)
    /\ IsNum(analysis_data["kpis"].return_on_own_funds_per_annum)
    /\ args.kpi_timeline_months = N(24)
    /\ IsNum(analysis_data["lending_analysis"].return_on_own_funds_per_annum)
    /\ analysis_data["kpis"].return_on_own_funds_per_annum =
           Div(analysis_data["kpis"].return_on_own_funds, N(2))

\* the same with no months supplied: the KPI record annualises over 18
C20_WitnessDefaultMonths ==
    /\ KpiSucceeded
    /\ Positive(analysis_data["kpis"].own_funds_needed)
    /\ IsNone(args.kpi_timeline_months)
    /\ EqNum(analysis_data["kpis"].timeline_months, N(18))


\* ---------------------------------------------------------------------------
\* C21  post-development metrics of the KPI record

\* C21: with a post-development record supplied, own_funds_left_in_deal is
\* (own funds needed + maximum loan) - term loan amount, and
\* annual_yield_on_own_funds is the post-development net cashflow over
\* own_funds_left_in_deal when that is strictly positive, and None otherwise
C21_KpiPostDevelopmentMetrics ==
    KpiSucceeded =>
        LET k == analysis_data["kpis"]
            lending_dict == analysis_data["lending_analysis"]
            post_dev_dict == analysis_data["post_development"]
            max_loan == Or(lending_dict.maximum_loan_amount, N(0))
            term_loan_amount == Or(post_dev_dict.term_loan_amount, N(0))
            cashflow == post_dev_dict.net_cashflow_per_annum
        IN  /\ k.own_funds_left_in_deal =
                  Sub(Add(k.own_funds_needed, max_loan), term_loan_amount)
            /\ IsNum(cashflow) => k.yearly_net_cashflow = cashflow
            /\ IF Positive(k.own_funds_left_in_deal)
               THEN k.annual_yield_on_own_funds =
                        Div(k.yearly_net_cashflow, k.own_funds_left_in_deal)
               ELSE IsNone(k.annual_yield_on_own_funds)

\* a KPI record with a loan, a term loan and a positive amount left in the deal
C21_Witness ==
    /\ KpiSucceeded
    /\ Positive(analysis_data["lending_analysis"].maximum_loan_amount)
    /\ Positive(analysis_data["post_development"].term_loan_amount)
    /\ Positive(analysis_data["kpis"].own_funds_left_in_deal)
    /\ IsNum(analysis_data["kpis"].annual_yield_on_own_funds)

\* a KPI record with nothing left in the deal: the yield is None
C21_WitnessNotPositive ==
    /\ KpiSucceeded
    /\ IsNum(analysis_data["kpis"].own_funds_left_in_deal)
    /\ ~Positive(analysis_data["kpis"].own_funds_left_in_deal)
    /\ IsNone(analysis_data["kpis"].annual_yield_on_own_funds)


\* ---------------------------------------------------------------------------
\* C22  the finance costs formulas

\* the months of a loan: those the timeline mapping supplies under the key, and
\* the default otherwise
SuppliedMonths(duration, default) ==
    IF args.timeline.kind = "dict" /\ IsNum(duration) THEN duration ELSE default

\* lending x (10% / 12) x months
FlatInterest(lending, months) == Mul(Mul(lending, Div(Num(10, 100), N(12))), months)

\* C22: with the acquisition total and the development total present, land
\* lending is 50% of the acquisition total with interest lending x (10%/12) x
\* land months (default 18), development lending is 100% of the development
\* total with half of lending x (10%/12) x development months (default 12),
\* each loan has a 2% entry fee and a 1% exit fee on its lending, and
\* finance_costs_total is the sum of these six components
C22_FinanceCostsFormulas ==
    (FinanceReturned
     /\ ~IsNone(analysis_data["acquisition_costs"].total_acquisition_costs)
     /\ ~IsNone(analysis_data["total_development_costs"].total_development_costs)) =>
        LET f == analysis_data["finance_costs"]
            acq == analysis_data["acquisition_costs"].total_acquisition_costs
            dev == analysis_data["total_development_costs"].total_development_costs
            land_months == SuppliedMonths(args.timeline.land_duration, N(18))
            dev_months == SuppliedMonths(args.timeline.development_duration, N(12))
        IN  /\ EqNum(f.land_lending_amount, Mul(acq, Num(1, 2)))
            /\ EqNum(f.land_duration_months, land_months)
            /\ EqNum(f.land_interest_total, FlatInterest(f.land_lending_amount, land_months))
            /\ EqNum(f.land_entry_fee, Mul(f.land_lending_amount, Num(2, 100)))
            /\ EqNum(f.land_exit_fee, Mul(f.land_lending_amount, Num(1, 100)))
            /\ EqNum(f.development_lending_amount, dev)
            /\ EqNum(f.development_duration_months, dev_months)
            /\ EqNum(f.development_interest_total,
                     Mul(FlatInterest(f.development_lending_amount, dev_months), Num(1, 2)))
            /\ EqNum(f.development_entry_fee, Mul(f.development_lending_amount, Num(2, 100)))
            /\ EqNum(f.development_exit_fee, Mul(f.development_lending_amount, Num(1, 100)))
            /\ EqNum(f.finance_costs_total,
                     SumNotNone(<<f.land_interest_total, f.land_entry_fee, f.land_exit_fee,
                                  f.development_interest_total, f.development_entry_fee,
                                  f.development_exit_fee>>))

\* finance costs worked out with the default 18 land months and 6 development
\* months supplied by the timeline mapping
C22_Witness ==
    /\ FinanceReturned
    /\ args.timeline = TimelineDict(AbsentV, N(6))
    /\ Positive(analysis_data["finance_costs"].land_interest_total)
    /\ Positive(analysis_data["finance_costs"].development_interest_total)
    /\ EqNum(analysis_data["finance_costs"].land_duration_months, N(18))
    /\ EqNum(analysis_data["finance_costs"].development_duration_months, N(6))


\* ---------------------------------------------------------------------------
\* C23  should_process_email and the skip of process_email

\* runner r takes the step that calls should_process_email
Checks(r) == run[r].pc = "process_email" /\ Len(run'[r].checked) > Len(run[r].checked)

\* what should_process_email returned in the step just taken by runner r
ShouldProcess(r) == run'[r].checked[Len(run'[r].checked)][2]

\* process_email of runner r returns res in the step just taken
Returns(r, res) == run'[r].returned = Append(run[r].returned, res)

\* the received date parses to a time strictly later than the cutoff
AfterCutoff(email) ==
    email.receivedDateTime.kind = "aware" /\ email.receivedDateTime.at > cutoff_date

\* C23: should_process_email returns (True, reason) only when the received date
\* parses, is strictly later than the cutoff and no deal is stored for the id of
\* the email; otherwise it returns (False, reason) and process_email returns
\* False without classifying, analysing or saving the email
C23_ShouldProcessEmail ==
    [][caller = "runner" =>
          \A r \in Runners :
              Checks(r) =>
                  /\ ShouldProcess(r)[1] =>
                        AfterCutoff(Current(r)) /\ RowsWith(Current(r).id) = {}
                  /\ ~ShouldProcess(r)[1] =>
                        /\ Returns(r, "False")
                        /\ run[r].i \notin run'[r].classified \cup run'[r].analysed
                                             \cup run'[r].saved]_vars

\* what the code gives: the deals table is asked for the email_id key of the
\* fetched email, which it does not have, so that only the date decides
C23_OnlyTheDateDecides ==
    [][caller = "runner" =>
          \A r \in Runners :
              Checks(r) => (ShouldProcess(r)[1] <=> AfterCutoff(Current(r)))]_vars

\* ---------------------------------------------------------------------------
\* C24  the confidence of the deals that are saved

\* runner r takes the step that inserts a row
Inserts(r) == run[r].pc = "insert" /\ Len(deals') > Len(deals)

\* C24: an email is saved as a deal only if its classification confidence is at
\* least min_confidence
C24_SavedOnlyWithConfidence ==
    [][caller = "runner" =>
          \A r \in Runners : Inserts(r) => run[r].confidence >= min_confidence]_vars

\* ---------------------------------------------------------------------------
\* C25  one deal per email id

C25_WitnessRefused ==
    /\ caller = "runner"
    /\ 1 \in run["first"].inserted /\ 1 \in run["second"].saved
    /\ Len(run["second"].returned) >= 1 /\ run["second"].returned[1] = "None"
    /\ Cardinality(RowsWith(N(1))) = 1

\* ---------------------------------------------------------------------------
\* C26  an email whose deal is stored

\* runner r enters process_email in the step just taken
Handed(r) == run[r].pc = "process_email" /\ Len(run'[r].handed) > Len(run[r].handed)

\* C26: an email whose deal is stored is skipped by process_email, which
\* returns False with the reason 'Already processed (duplicate)' before
\* classification and analysis, and is counted in skipped_count and not in
\* failed_count
C26_StoredDealIsSkipped ==
    [][caller = "runner" =>
          \A r \in Runners :
              (Handed(r) /\ RowsWith(Current(r).id) # {}
               /\ AfterCutoff(Current(r)) /\ ~IsNone(Current(r).subject)) =>
                  /\ Checks(r)
                  /\ ShouldProcess(r) = <<FALSE, "Already processed (duplicate)">>
                  /\ Returns(r, "False")
                  /\ run'[r].skipped_count = run[r].skipped_count + 1
                  /\ run'[r].failed_count = run[r].failed_count]_vars

\* what the code gives: should_process_email never answers with the duplicate
\* reason
C26_DuplicateReasonNeverGiven ==
    caller = "runner" =>
        \A r \in Runners : \A n \in 1..Len(run[r].checked) :
            run[r].checked[n][2][2] # "Already processed (duplicate)"

\* ---------------------------------------------------------------------------
\* C30  the loop of run()

\* C30: every fetched email is handed to process_email once, in fetch order,
\* whatever the earlier ones returned; when the loop ends processed_count +
\* skipped_count + failed_count is the number of fetched emails and
\* processed_count is the number of deals the run inserted
C30_EveryEmailHandedOnce ==
    caller = "runner" =>
        \A r \in Runners :
            /\ Len(run[r].handed) <= Len(run[r].results)
            /\ \A n \in 1..Len(run[r].handed) : run[r].handed[n] = n
            /\ run[r].pc = "done" =>
                  /\ Len(run[r].handed) = Len(run[r].results)
                  /\ Len(run[r].returned) = Len(run[r].results)
                  /\ run[r].processed_count + run[r].skipped_count + run[r].failed_count
                        = Len(run[r].results)
                  /\ run[r].processed_count = Cardinality(run[r].inserted)
                  /\ \A k \in run[r].inserted : RowsWith(run[r].results[k].id) # {}

\* a run over two emails ended: the first failed, the second was saved
C30_Witness ==
    /\ caller = "runner"
    /\ run["first"].pc = "done"
    /\ Len(run["first"].results) = 2
    /\ run["first"].returned = <<"None", "True">>
    /\ run["first"].failed_count = 1 /\ run["first"].processed_count = 1


\* ---------------------------------------------------------------------------
\* C27  the net internal area, from the floors to the build costs

\* the rows of a GDV list before its totals row
AccommodationRows(gdv_dict) == SubSeq(gdv_dict, 1, Len(gdv_dict) - 1)

\* every accommodation row has a unit count and an area in m2
EveryRowHasUnitsAndArea(gdv_dict) ==
    /\ Len(gdv_dict) > 1
    /\ \A n \in 1..(Len(gdv_dict) - 1) :
          Truthy(gdv_dict[n].no_of_units) /\ Truthy(gdv_dict[n].average_sqm_per_unit)

\* the net internal area of the scheme: the units times the m2 per unit, row by row
SchemeArea(gdv_dict) ==
    SumNotNone([n \in 1..(Len(gdv_dict) - 1) |->
                   Mul(gdv_dict[n].no_of_units, gdv_dict[n].average_sqm_per_unit)])

\* C27: for floors whose every accommodation entry has a unit count and an
\* area, the NIA of build_costs, computed from the totals row of
\* gross_development_value, is the net internal area of the scheme: the sum
\* over the rows of no_of_units x average_sqm_per_unit
C27_NiaIsSchemeArea ==
    (caller = "batch" /\ Has("build_costs")
     /\ EveryRowHasUnitsAndArea(analysis_data["gdv"])) =>
        EqNum(analysis_data["build_costs"].NIA, SchemeArea(analysis_data["gdv"]))

\* what the code gives: the totals row carries the scheme area itself as its
\* m2 per unit, so that the NIA is the total units times the scheme area
C27_NiaIsUnitsTimesSchemeArea ==
    (caller = "batch" /\ Has("build_costs")
     /\ EveryRowHasUnitsAndArea(analysis_data["gdv"])) =>
        EqNum(analysis_data["build_costs"].NIA,
              Mul(Last(analysis_data["gdv"]).no_of_units,
                  Round(SchemeArea(analysis_data["gdv"]), 1)))

\* ---- C28 ---------------------------------------------------------------
\* the asking price the acquisition stage reported is not a negative number
AskingNotNegative ==
    LET ask == analysis_data["acquisition_costs"].asking_price
    IN  IsNone(ask) \/ Ge(ask, N(0))

NotNegative(v) == IsNum(v) /\ Ge(v, N(0))

\* C28: in every Funding Workings record of the success branch, made from
\* stage outputs with a non-negative asking price, the own and the borrow amount
\* of each line item and of the grand total are non-negative; in particular
\* asking price - land loan is never negative.
C28_FundingAmountsNotNegative ==
    (FwSuccess /\ AskingNotNegative) =>
        LET fw == analysis_data["funding_workings"]
        IN  \A k \in DOMAIN fw : NotNegative(fw[k].own) /\ NotNegative(fw[k].borrow)

\* what the code gives: only the own part of the asking price line can be
\* negative, and it is exactly when the land loan, half of the total
\* acquisition costs, exceeds the asking price; every other own and borrow
\* amount, the acquisition total and the grand total included, is non-negative
C28_OnlyAskingOwnCanBeNegative ==
    (FwSuccess /\ AskingNotNegative) =>
        LET fw == analysis_data["funding_workings"]
        IN  /\ \A k \in DOMAIN fw : NotNegative(fw[k].borrow)
            /\ \A k \in DOMAIN fw \ {"asking_price"} : NotNegative(fw[k].own)
            /\ Lt(fw.asking_price.own, N(0)) <=>
                   Gt(fw.asking_price.borrow, fw.asking_price.total)

\* ---- C29 ---------------------------------------------------------------
\* a run of the stages, each handed the outputs the pipeline hands it, in
\* which total_costs computed a total and funding_workings has returned
TotalCostsComputed ==
    /\ caller = "direct" /\ ~args.omit
    /\ Has("total_costs") /\ Has("funding_workings")
    /\ ~IsNone(analysis_data["total_costs"].total_costs)

\* C29: whenever Total Costs computes a non-null total_costs, the Funding
\* Workings grand total of the same run, total_costs.total = total own + total
\* borrow, equals that total_costs value, and acquisition_costs_total.total
\* equals the acquisition_costs of Total Costs.
C29_GrandTotalIsTotalCosts ==
    TotalCostsComputed =>
        LET fw == analysis_data["funding_workings"]
            tc == analysis_data["total_costs"]
        IN  /\ EqNum(fw.total_costs.total, Add(fw.total_costs.own, fw.total_costs.borrow))
            /\ EqNum(fw.total_costs.total, tc.total_costs)
            /\ EqNum(fw.acquisition_costs_total.total, tc.acquisition_costs)

\* a run with a land loan, borrowed development and statutory costs and a
\* positive total
C29_Witness ==
    /\ TotalCostsComputed
    /\ Positive(analysis_data["total_costs"].total_costs)
    /\ Positive(analysis_data["funding_workings"].asking_price.borrow)
    /\ Positive(analysis_data["funding_workings"].statutory_costs_total.borrow)
    /\ Positive(analysis_data["funding_workings"].funding_costs_total.own)

\* the same with an asking price below the land loan
C29_WitnessLowAskingPrice ==
    /\ TotalCostsComputed
    /\ Positive(analysis_data["total_costs"].total_costs)
    /\ Lt(analysis_data["funding_workings"].asking_price.own, N(0))
====
